---- MODULE Spec2Model ----
(***************************************************************************)
(* Content moderation: the content-processing pipeline and the moderation  *)
(* status state machine (moderation/processor.py) over the relational      *)
(* store declared in models.py.                                            *)
(*                                                                         *)
(* Scores are probabilities; they are modelled in hundredths (0..100), so  *)
(* 0.3 is 30 and 0.8 is 80.  Each request handler owns one database        *)
(* session: rows it adds and attributes it assigns stay private to the     *)
(* session until db.session.commit() applies them in one transaction.      *)
(***************************************************************************)
EXTENDS Integers, Sequences, FiniteSets, TLC

VARIABLES
    contentTbl,   \* table content: committed rows, in insertion order
    statusTbl,    \* table moderation_status
    flagTbl,      \* table content_flag
    actionTbl,    \* table moderation_action
    nextId,       \* next value of the content.id sequence
    sess,         \* per request handler: position in its call and session state
    ret,          \* per request handler: what the call it just finished returned
    classified,   \* history: the classification each committed item was scored with
    updLog,       \* history: the status updates committed so far, in commit order
    today,        \* datetime.utcnow().date(), as a day number
    metricTbl,    \* table moderation_metric
    msess,        \* per aggregation job: position in generate_daily_metrics
    batch,        \* per request handler: the batch loop it is in, if any
    engine,       \* a ContentClassifier: categories, vectorizers, models
    artifact,     \* the model file save_model writes and load_model reads
    tsess,        \* the engine's owner: position in train or load_model
    fits          \* fits begun so far; a fit is named by its number

vars ==
    <<contentTbl, statusTbl, flagTbl, actionTbl, nextId, sess, ret, classified, updLog,
      today, metricTbl, msess, batch, engine, artifact, tsess, fits>>
tables == <<contentTbl, statusTbl, flagTbl, actionTbl>>
\* the classification engine under study
engineVars == <<engine, artifact, tsess, fits>>
\* what the content pipeline and the review routes never write
aside == <<metricTbl, msess, engineVars>>
\* everything but the engine, the handlers' answers and their batch loops
storeVars ==
    <<tables, nextId, sess, classified, updLog, today, metricTbl, msess>>

(* ------------------------------ bounds -------------------------------- *)
MaxContent == 1      \* content ids a review run may allocate
MaxIngest == 1       \* content ids an ingest run may allocate
MaxUpdates == 3      \* update_moderation_status calls a review run may start
MaxCats == 2         \* categories of each kind that are scored (a prefix of the list)
MaxDay == 2          \* days the clock runs through in an aggregation run
MaxBatch == 2        \* items in one batch request
MaxFits == 2         \* fits an engine run begins
MaxTest == 3         \* texts in a held-out set
MaxPieces == 3       \* pieces a text to preprocess is put together from

(* --------------------------- program constants ------------------------ *)
RejectAbove == 80    \* moderation_score > 0.8
ApproveBelow == 30   \* moderation_score < 0.3
FlagAbove == 30      \* score > 0.3
ReferenceAbove == 1000   \* len(content_text) > 1000
DisplayLimit == 1000     \* content_text[:1000]

NULL == "NULL"       \* None / SQL NULL
NoTime == -1         \* None / SQL NULL in a time or duration column

Workers == {"w1", "w2"}
\* handlers of the metrics routes
Jobs == {"j1", "j2"}
Handlers == Workers \cup Jobs
Reviewers == {"u7"}
ContentTypes == {"text", "image", "video"}
HumanStatuses == {"approved", "rejected"}
\* what the status field of a review form may carry
RequestedStatuses == HumanStatuses \cup {"pending", "escalated"}
\* scores around the two thresholds, in hundredths
ScoreSamples == {29, 30, 31, 80, 81}
\* the score sets a review run ingests with: one per initial disposition
ReviewScoreSets == {{29}, {31}, {81}}
\* processing_time of a call, in milliseconds
ReviewLatencies == {4}
\* the score sets an aggregation run ingests with: an approved item without a
\* flag, or a rejected item with one
MetricScoreSets == {{29}, {81}}
\* the score set a batch run ingests with: a pending item
BatchScoreSets == {{31}}
\* probabilities predict_proba may return, and values random.uniform(0.1, 0.9)
\* may return, in hundredths
Draws == {[probability |-> 0, uniform |-> 10], [probability |-> 100, uniform |-> 90]}
\* the categories whose prediction may fail in one classify_text call
Failing == {{}, {"profanity"}}
\* submissions just below, at and above the size limit
Submissions ==
    {[payload |-> "p", length |-> n] :
        n \in {DisplayLimit - 1, DisplayLimit, DisplayLimit + 1}}
\* metadata: none, a dict without a filename, a dict with one
Metadatas ==
    {[given |-> FALSE, filename |-> NULL], [given |-> TRUE, filename |-> NULL],
     [given |-> TRUE, filename |-> "clip.mp4"]}
\* the days arguments get_moderation_metrics is called with
Windows == {1, 2}

(* ------------------------------ helpers ------------------------------- *)
Max(a, b) == IF a > b THEN a ELSE b

\* the rows of a table that belong to one content item, in insertion order
RowsOf(tbl, cid) == SelectSeq(tbl, LAMBDA r : r.content_id = cid)

(* ----------------------------- classifier ----------------------------- *)
\* ContentClassifier.categories
TextCategories ==
    <<"profanity", "hate_speech", "violence", "sexual_content", "harassment">>

\* the keys _generate_media_classification fills, in insertion order
MediaCategories(media_type) ==
    IF media_type = "image"
    THEN <<"violence", "adult_content", "graphic_violence", "sexual_content",
           "hate_symbols">>
    ELSE <<"violence", "adult_content", "graphic_violence", "sexual_content",
           "dangerous_activity", "hate_speech">>

\* the keys of the classification dict process_content obtains for a content
\* type, in dict order; the first MaxCats of them are scored
Categories(content_type) ==
    LET all == IF content_type \in {"image", "video"}
               THEN MediaCategories(content_type)
               ELSE TextCategories
    IN SubSeq(all, 1, IF Len(all) < MaxCats THEN Len(all) ELSE MaxCats)

\* the classification dicts a call may obtain: every category gets some score
Classifications(content_type, scores) ==
    LET cats == Categories(content_type)
    IN [{cats[i] : i \in 1..Len(cats)} -> scores]


(* --------------------------- process_content -------------------------- *)
RECURSIVE MaxOver(_, _, _)
MaxOver(classification, cats, acc) ==
    IF cats = <<>> THEN acc
    ELSE MaxOver(classification, Tail(cats), Max(acc, classification[Head(cats)]))

\* variant: the running score is overwritten instead of maximised
ModerationScoreLast(classification, cats) ==
    IF cats = <<>> THEN 0 ELSE classification[cats[Len(cats)]]

\* moderation_score = 0; for category, score in ...: max(moderation_score, score)
ModerationScore(classification, cats) == MaxOver(classification, cats, 0)

\* variant: the thresholds are inclusive
InitialStatusInclusive(moderation_score) ==
    IF moderation_score >= RejectAbove THEN "rejected"
    ELSE IF moderation_score <= ApproveBelow THEN "approved"
    ELSE "pending"

\* the initial status for a moderation score
InitialStatus(moderation_score) ==
    IF moderation_score > RejectAbove THEN "rejected"
    ELSE IF moderation_score < ApproveBelow THEN "approved"
    ELSE "pending"

\* f'automated_{status}'
AutomatedType(status) ==
    CASE status = "rejected" -> "automated_rejected"
      [] status = "approved" -> "automated_approved"
      [] OTHER -> "automated_pending"

\* variant: the reporting threshold is inclusive
FlaggedInclusive(score) == score >= FlagAbove

\* whether a category's score gets a ContentFlag
Flagged(score) == score > FlagAbove

RECURSIVE BuildFlags(_, _, _)
\* the ContentFlag rows added for a classification, in dict order; created_at
\* is left to its column default
BuildFlags(cid, classification, cats) ==
    IF cats = <<>> THEN <<>>
    ELSE (IF Flagged(classification[Head(cats)])
          THEN <<[content_id |-> cid, flag_type |-> Head(cats),
                  flag_score |-> classification[Head(cats)],
                  created_at |-> NoTime]>>
          ELSE <<>>)
         \o BuildFlags(cid, classification, Tail(cats))

\* a text as far as its storage goes: what it says and how long it is
Submitted(payload, length) == [payload |-> payload, length |-> length]

\* a submission of a few characters and no metadata
ShortText == Submitted("p", 1)
NoMetadata == [given |-> FALSE, filename |-> NULL]

\* content_text[:n]: the first n characters
Prefix(text, n) == [text EXCEPT !.length = IF @ > n THEN n ELSE @]

\* line 68: content_text[:1000] if len(content_text) > 1000 else content_text
DisplayText(content_text) ==
    IF content_text.length > DisplayLimit THEN Prefix(content_text, DisplayLimit)
    ELSE content_text

\* variant: the submission is kept whatever its type and size
OriginalContentRaw(content_text, content_type, metadata) == [text |-> content_text]

\* lines 44-51: a reference string for a large image or video, else the
\* submission
OriginalContent(content_text, content_type, metadata) ==
    IF content_type \in {"image", "video"} /\ content_text.length > ReferenceAbove
    THEN [reference |-> content_type,
          filename |-> IF metadata.given /\ metadata.filename # NULL
                       THEN metadata.filename ELSE NULL]
    ELSE [text |-> content_text]

NewContent(id, user_id, content_type, content_text, original_content, metadata) ==
    [id |-> id, user_id |-> user_id, content_type |-> content_type,
     content_text |-> content_text, original_content |-> original_content,
     content_metadata |-> metadata]

\* last_updated is left to its column default
NewStatus(cid, status, moderation_score, processing_time) ==
    [content_id |-> cid, status |-> status, moderation_score |-> moderation_score,
     is_automated |-> TRUE, processing_time |-> processing_time,
     last_updated |-> NoTime]

\* variant: the action is written without its content_id
NewActionUnlinked(cid, user_id, action_type, previous_status) ==
    [content_id |-> 0, user_id |-> user_id, action_type |-> action_type,
     previous_status |-> previous_status]

NewAction(cid, user_id, action_type, previous_status) ==
    [content_id |-> cid, user_id |-> user_id, action_type |-> action_type,
     previous_status |-> previous_status]

(* ------------------------------ sessions ------------------------------ *)
\* a handler between calls: nothing pending in its session
IdleSess ==
    [pc |-> "idle", cid |-> 0, content_type |-> NULL, scores |-> <<>>,
     seen |-> NULL, requested |-> NULL, submitted |-> NoMetadata,
     add_content |-> <<>>, add_status |-> <<>>, add_flags |-> <<>>,
     add_actions |-> <<>>, set_status |-> <<>>]

NoReturn == [op |-> "none", cid |-> 0, ok |-> FALSE, why |-> "none"]

Returned(op, cid, ok, why) == [op |-> op, cid |-> cid, ok |-> ok, why |-> why]

\* a handler that is not in a batch loop
NoBatch == [kind |-> "none"]

\* variant: the loop ends at the first item that fails
AfterProcessStopping(b, r) ==
    IF r.ok THEN [b EXCEPT !.i = @ + 1, !.results = Append(@, r.cid)]
    ELSE [b EXCEPT !.i = Len(b.items) + 1]

\* batch_process, lines 175-176: if result: results.append(result), and on to
\* the next item
AfterProcess(b, r) ==
    IF r.ok THEN [b EXCEPT !.i = @ + 1, !.results = Append(@, r.cid)]
    ELSE [b EXCEPT !.i = @ + 1]

\* variant: every call is counted
AfterUpdateCounted(b, r) ==
    [b EXCEPT !.i = @ + 1, !.success_count = @ + 1]

\* batch_action, lines 193-196: if result: success_count += 1, and on to the
\* next id
AfterUpdate(b, r) ==
    IF r.ok THEN [b EXCEPT !.i = @ + 1, !.success_count = @ + 1]
    ELSE [b EXCEPT !.i = @ + 1]

\* what a return from the processor means to the loop that made the call
Resume(w, r) ==
    IF batch[w].kind = "batch_process" /\ r.op = "process"
    THEN [batch EXCEPT ![w] = AfterProcess(@, r)]
    ELSE IF batch[w].kind = "batch_action" /\ r.op = "update"
    THEN [batch EXCEPT ![w] = AfterUpdate(@, r)]
    ELSE batch

\* the response handler w sends; it is observed in that step only
Answers(w, r) == ret' = [v \in Handlers |-> IF v = w THEN r ELSE NoReturn]

\* the step in which handler w returns r from the processor to its caller
Returns(w, r) == Answers(w, r) /\ batch' = Resume(w, r)

NoneReturns == ret' = [v \in Handlers |-> NoReturn] /\ UNCHANGED batch

\* variant: the assignments never reach the table
ApplyUpdatesLost(tbl, sets) == tbl

\* variant: the UPDATE has no WHERE clause
ApplyUpdatesEveryRow(tbl, sets) ==
    IF sets = <<>> THEN tbl
    ELSE [i \in DOMAIN tbl |->
             [tbl[i] EXCEPT !.status = sets[Len(sets)].status,
                            !.is_automated = sets[Len(sets)].is_automated,
                            !.last_updated = sets[Len(sets)].last_updated]]

\* UPDATE moderation_status SET ... WHERE id = pk, for each pending assignment;
\* the statement writes the attributes the call assigned over whatever the row
\* holds when it runs (read committed)
RECURSIVE ApplyUpdates(_, _)
ApplyUpdates(tbl, sets) ==
    IF sets = <<>> THEN tbl
    ELSE ApplyUpdates([tbl EXCEPT ![Head(sets).pk] =
                          [@ EXCEPT !.status = Head(sets).status,
                                    !.is_automated = Head(sets).is_automated,
                                    !.last_updated = Head(sets).last_updated]],
                      Tail(sets))

\* variant: a row equal to the table's newest row is not inserted again
CommittedDeduplicated(tbl, rows) ==
    IF tbl # <<>> /\ rows # <<>> /\ rows[1] = tbl[Len(tbl)] THEN tbl ELSE tbl \o rows

\* db.session.commit(): the session's pending rows reach the tables together
Committed(tbl, rows) == tbl \o rows

\* INSERT: a column left unset takes its default, datetime.utcnow
Defaulted(rows, column) ==
    [i \in DOMAIN rows |->
        IF rows[i][column] = NoTime THEN [rows[i] EXCEPT ![column] = today] ELSE rows[i]]

\* variant: what the session had flushed stays in the tables
RolledBackKept(tbl, rows) == tbl \o rows

\* db.session.rollback(): the session's pending rows are discarded
RolledBack(tbl, rows) == tbl

(* ------------------- ContentProcessor.process_content ---------------- *)
\* lines 40-73: the Content row is added and flushed, which draws its id
ProcessStore(w, content_text, content_type, user_id, metadata, limit) ==
    /\ sess[w].pc = "idle"
    /\ nextId <= limit
    /\ sess' = [sess EXCEPT ![w] =
                   [IdleSess EXCEPT
                       !.pc = "flushed", !.cid = nextId,
                       !.content_type = content_type,
                       !.submitted = [given |-> TRUE, filename |-> NULL,
                                      content_text |-> content_text,
                                      metadata |-> metadata],
                       !.add_content =
                           <<NewContent(nextId, user_id, content_type,
                                        DisplayText(content_text),
                                        OriginalContent(content_text, content_type,
                                                        metadata),
                                        metadata)>>]]
    /\ nextId' = nextId + 1
    /\ NoneReturns
    /\ UNCHANGED <<tables, classified, updLog, today, aside>>

\* process_content called with a short text and no metadata
ProcessBegin(w, content_type, user_id, limit) ==
    ProcessStore(w, ShortText, content_type, user_id, NoMetadata, limit)

\* lines 75-137: classification, overall score, initial status, and the
\* ModerationStatus, ContentFlag and ModerationAction rows added to the session
ProcessClassify(w, scores, latencies) ==
    /\ sess[w].pc = "flushed"
    /\ \E classification \in Classifications(sess[w].content_type, scores),
          processing_time \in latencies :
         LET cid == sess[w].cid
             cats == Categories(sess[w].content_type)
             moderation_score == ModerationScore(classification, cats)
             status == InitialStatus(moderation_score)
         IN sess' = [sess EXCEPT ![w] =
                       [@ EXCEPT !.pc = "built",
                                 !.scores = classification,
                                 !.add_status =
                                     <<NewStatus(cid, status, moderation_score,
                                                 processing_time)>>,
                                 !.add_flags = BuildFlags(cid, classification, cats),
                                 !.add_actions =
                                     <<NewAction(cid, NULL, AutomatedType(status),
                                                 NULL)>>]]
    /\ NoneReturns
    /\ UNCHANGED <<tables, nextId, classified, updLog, today, aside>>

\* lines 139-148: commit, and the processed record is returned
ProcessCommit(w) ==
    /\ sess[w].pc = "built"
    /\ contentTbl' = Committed(contentTbl, sess[w].add_content)
    /\ statusTbl' = Committed(statusTbl, Defaulted(sess[w].add_status, "last_updated"))
    /\ flagTbl' = Committed(flagTbl, Defaulted(sess[w].add_flags, "created_at"))
    /\ actionTbl' = Committed(actionTbl, sess[w].add_actions)
    /\ classified' = classified @@ (sess[w].cid :> sess[w].scores)
    /\ Returns(w, Returned("process", sess[w].cid, TRUE, "ok"))
    /\ sess' = [sess EXCEPT ![w] = IdleSess]
    /\ UNCHANGED <<nextId, updLog, today, aside>>

\* lines 150-153: any step of the call raises; rollback, None is returned
ProcessRaise(w) ==
    /\ sess[w].pc \in {"idle", "flushed", "built"}
    /\ contentTbl' = RolledBack(contentTbl, sess[w].add_content)
    /\ statusTbl' = RolledBack(statusTbl, sess[w].add_status)
    /\ flagTbl' = RolledBack(flagTbl, sess[w].add_flags)
    /\ actionTbl' = RolledBack(actionTbl, sess[w].add_actions)
    /\ Returns(w, Returned("process", sess[w].cid, FALSE, "exception"))
    /\ sess' = [sess EXCEPT ![w] = IdleSess]
    /\ UNCHANGED <<nextId, classified, updLog, today, aside>>

(* --------------- ContentProcessor.update_moderation_status ------------ *)
\* Content.query.get(content_id): the committed row with that id, if any
ContentFound(cid) == \E i \in 1..Len(contentTbl) : contentTbl[i].id = cid

\* variant: only a status still pending is looked up
RECURSIVE FirstStatusPending(_, _)
FirstStatusPending(cid, i) ==
    IF i > Len(statusTbl) THEN 0
    ELSE IF statusTbl[i].content_id = cid /\ statusTbl[i].status = "pending" THEN i
    ELSE FirstStatusPending(cid, i + 1)

\* ModerationStatus.query.filter_by(content_id=content_id).first(): the
\* position of the first committed row for the content, 0 if there is none
RECURSIVE FirstStatus(_, _)
FirstStatus(cid, i) ==
    IF i > Len(statusTbl) THEN 0
    ELSE IF statusTbl[i].content_id = cid THEN i
    ELSE FirstStatus(cid, i + 1)

\* variant: previous_status is left unset, as process_content leaves it
PreviousStatusUnset(current_status) == NULL

\* previous_status = current_status.status
PreviousStatus(current_status) == current_status.status

\* update calls in flight or committed
UpdatesBegun == Len(updLog) + Cardinality({w \in Workers : sess[w].pc = "loaded"})

\* variant: the ModerationAction is added before the rows are looked up, so a
\* missing content still gets its audit row
UpdateLoadAuditFirst(w, content_id, status, user_id) ==
    /\ sess[w].pc = "idle"
    /\ UpdatesBegun < MaxUpdates
    /\ LET pk == FirstStatus(content_id, 1)
           prev == IF pk = 0 THEN NULL ELSE PreviousStatus(statusTbl[pk])
       IN sess' = [sess EXCEPT ![w] =
                     [IdleSess EXCEPT
                         !.pc = "loaded", !.cid = content_id,
                         !.seen = prev, !.requested = status,
                         !.set_status =
                             IF pk = 0 THEN <<>>
                             ELSE <<[pk |-> pk, status |-> status,
                                     is_automated |-> FALSE,
                                     last_updated |-> today]>>,
                         !.add_actions =
                             <<NewAction(content_id, user_id, status, prev)>>]]
    /\ NoneReturns
    /\ UNCHANGED <<tables, nextId, classified, updLog, today, aside>>

\* lines 193-221: both rows are loaded (None if either is missing), the status
\* row's attributes are assigned and the ModerationAction is added
UpdateLoad(w, content_id, status, user_id) ==
    /\ sess[w].pc = "idle"
    /\ UpdatesBegun < MaxUpdates
    /\ LET pk == FirstStatus(content_id, 1)
       IN IF ~ContentFound(content_id) \/ pk = 0
          THEN /\ Returns(w, Returned("update", content_id, FALSE, "not_found"))
               /\ UNCHANGED sess
          ELSE /\ sess' = [sess EXCEPT ![w] =
                             [IdleSess EXCEPT
                                 !.pc = "loaded", !.cid = content_id,
                                 !.seen = statusTbl[pk].status,
                                 !.requested = status,
                                 !.set_status =
                                     <<[pk |-> pk, status |-> status,
                                        is_automated |-> FALSE,
                                        last_updated |-> today]>>,
                                 !.add_actions =
                                     <<NewAction(content_id, user_id, status,
                                                 PreviousStatus(statusTbl[pk]))>>]]
               /\ NoneReturns
    /\ UNCHANGED <<tables, nextId, classified, updLog, today, aside>>

\* lines 223-226: commit; the UPDATE and the INSERT take effect together
UpdateCommit(w) ==
    /\ sess[w].pc = "loaded"
    /\ statusTbl' = ApplyUpdates(statusTbl, sess[w].set_status)
    /\ actionTbl' = Committed(actionTbl, sess[w].add_actions)
    /\ updLog' = Append(updLog, [cid |-> sess[w].cid, requested |-> sess[w].requested,
                                 before |-> sess[w].seen])
    /\ Returns(w, Returned("update", sess[w].cid, TRUE, "ok"))
    /\ sess' = [sess EXCEPT ![w] = IdleSess]
    /\ UNCHANGED <<contentTbl, flagTbl, nextId, classified, today, aside>>

\* lines 228-231: a query or the commit raises; rollback, None is returned
UpdateRaise(w) ==
    /\ sess[w].pc \in {"idle", "loaded"}
    /\ statusTbl' = RolledBack(statusTbl, sess[w].set_status)
    /\ actionTbl' = RolledBack(actionTbl, sess[w].add_actions)
    /\ Returns(w, Returned("update", sess[w].cid, FALSE, "exception"))
    /\ sess' = [sess EXCEPT ![w] = IdleSess]
    /\ UNCHANGED <<contentTbl, flagTbl, nextId, classified, updLog, today, aside>>

(* ------------------------ moderation/utils.py ------------------------- *)
\* an aggregation job between calls
IdleJob == [pc |-> "idle", today |-> 0, existing_types |-> {}, add_metrics |-> <<>>]

\* the metric types, in the order generate_daily_metrics writes them
MetricTypes ==
    <<"daily_processed", "flag_distribution", "status_distribution",
      "avg_processing_time">>

\* date.isoformat(): year, month and day in fixed-width fields, compared as a
\* string from the left; day 1 is 2024-12-30, so the run crosses a year's end
IsoFormat(day) ==
    IF day >= 3 THEN <<2025, 1, day - 2>> ELSE <<2024, 12, day + 29>>

\* a < b for two isoformat strings
IsoBefore(a, b) ==
    \/ a[1] < b[1]
    \/ a[1] = b[1] /\ a[2] < b[2]
    \/ a[1] = b[1] /\ a[2] = b[2] /\ a[3] < b[3]

\* the rows of a table whose timestamp column lies between the day's
\* datetime.min.time() and datetime.max.time()
RowsOn(tbl, column, day) == SelectSeq(tbl, LAMBDA r : r[column] = day)

\* counts per value of a column: a dict with a key for each value that occurs
CountBy(rows, column) ==
    [k \in {rows[i][column] : i \in DOMAIN rows} |->
        Cardinality({i \in DOMAIN rows : rows[i][column] = k})]

RECURSIVE SumTimes(_)
SumTimes(rows) ==
    IF rows = <<>> THEN 0 ELSE Head(rows).processing_time + SumTimes(Tail(rows))

\* sum(...) / len(statuses) as the fraction num/den, 0 for no statuses
AvgTime(rows) ==
    IF rows # <<>> THEN [num |-> SumTimes(rows), den |-> Len(rows)]
    ELSE [num |-> 0, den |-> 1]

\* lines 63-155: the value generate_daily_metrics computes for a metric type
MetricValue(metric_type, day) ==
    CASE metric_type = "daily_processed" ->
            [count |-> Len(RowsOn(statusTbl, "last_updated", day)), date |-> day]
      [] metric_type = "flag_distribution" ->
            CountBy(RowsOn(flagTbl, "created_at", day), "flag_type")
      [] metric_type = "status_distribution" ->
            CountBy(RowsOn(statusTbl, "last_updated", day), "status")
      [] OTHER ->
            AvgTime(SelectSeq(RowsOn(statusTbl, "last_updated", day),
                              LAMBDA r : r.processing_time # NoTime))

NewMetric(metric_date, metric_type, metric_value) ==
    [metric_date |-> metric_date, metric_type |-> metric_type,
     metric_value |-> metric_value]

\* ModerationMetric.query.filter_by(metric_date=today): the types recorded
ExistingTypes(day) ==
    {metricTbl[i].metric_type :
        i \in {k \in 1..Len(metricTbl) : metricTbl[k].metric_date = day}}

\* variant: every type is generated, recorded or not
RECURSIVE GeneratedRowsAll(_, _, _)
GeneratedRowsAll(types, existing_types, day) ==
    IF types = <<>> THEN <<>>
    ELSE <<NewMetric(day, Head(types), MetricValue(Head(types), day))>>
         \o GeneratedRowsAll(Tail(types), existing_types, day)

\* the rows one call adds: one for each type not in existing_types
RECURSIVE GeneratedRows(_, _, _)
GeneratedRows(types, existing_types, day) ==
    IF types = <<>> THEN <<>>
    ELSE (IF Head(types) \notin existing_types
          THEN <<NewMetric(day, Head(types), MetricValue(Head(types), day))>>
          ELSE <<>>)
         \o GeneratedRows(Tail(types), existing_types, day)

\* lines 57-61: today's date is taken and the rows recorded for it are read
GenerateBegin(j) ==
    /\ msess[j].pc = "idle"
    /\ msess' = [msess EXCEPT ![j] =
                    [pc |-> "read", today |-> today,
                     existing_types |-> ExistingTypes(today),
                     add_metrics |-> <<>>]]
    /\ NoneReturns
    /\ UNCHANGED <<tables, nextId, sess, classified, updLog, today, metricTbl,
                   engineVars>>

\* lines 63-161: the missing types are computed and added, and committed
GenerateCommit(j) ==
    /\ msess[j].pc = "read"
    /\ metricTbl' =
           Committed(metricTbl,
                     GeneratedRows(MetricTypes, msess[j].existing_types,
                                   msess[j].today))
    /\ msess' = [msess EXCEPT ![j] = IdleJob]
    /\ Returns(j, Returned("generate", 0, TRUE, "ok"))
    /\ UNCHANGED <<tables, nextId, sess, classified, updLog, today, engineVars>>

\* the types a call generates, in the order it comes to them
MissingTypes(existing_types) ==
    SelectSeq(MetricTypes, LAMBDA metric_type : metric_type \notin existing_types)

\* lines 63-155, one "if ... not in existing_types" block: the block's query
\* runs on what is committed at that moment (each statement of a read
\* committed transaction sees its own snapshot) and its row is added to the
\* session
GenerateQuery(j) ==
    /\ msess[j].pc = "read"
    /\ Len(msess[j].add_metrics) < Len(MissingTypes(msess[j].existing_types))
    /\ LET metric_type ==
               MissingTypes(msess[j].existing_types)[Len(msess[j].add_metrics) + 1]
       IN msess' = [msess EXCEPT ![j].add_metrics =
                       Append(@, NewMetric(msess[j].today, metric_type,
                                           MetricValue(metric_type, msess[j].today)))]
    /\ NoneReturns
    /\ UNCHANGED <<tables, nextId, sess, classified, updLog, today, metricTbl,
                   engineVars>>

\* lines 157-161: the rows added by the blocks are committed
GenerateCommitAdded(j) ==
    /\ msess[j].pc = "read"
    /\ Len(msess[j].add_metrics) = Len(MissingTypes(msess[j].existing_types))
    /\ metricTbl' = Committed(metricTbl, msess[j].add_metrics)
    /\ msess' = [msess EXCEPT ![j] = IdleJob]
    /\ Returns(j, [op |-> "generate", cid |-> 0, ok |-> TRUE, why |-> "ok",
                   added |-> msess[j].add_metrics])
    /\ UNCHANGED <<tables, nextId, sess, classified, updLog, today, engineVars>>

\* lines 163-166: a query after the first, or the commit, raises; rollback
GenerateRaise(j) ==
    /\ msess[j].pc = "read"
    /\ metricTbl' = RolledBack(metricTbl, <<>>)
    /\ msess' = [msess EXCEPT ![j] = IdleJob]
    /\ Returns(j, Returned("generate", 0, FALSE, "exception"))
    /\ UNCHANGED <<tables, nextId, sess, classified, updLog, today, engineVars>>

\* the placeholder get_moderation_metrics fills in for a missing date
Placeholder(metric_type) ==
    CASE metric_type = "daily_processed" -> [count |-> 0]
      [] metric_type = "flag_distribution" -> <<>>
      [] metric_type = "status_distribution" -> <<>>
      [] OTHER -> [num |-> 0, den |-> 1]

\* lines 184-202: the entries of one type among the rows in the date range
RECURSIVE StoredEntries(_, _, _, _)
StoredEntries(metric_type, start_date, end_date, i) ==
    IF i > Len(metricTbl) THEN <<>>
    ELSE (IF /\ metricTbl[i].metric_type = metric_type
             /\ metricTbl[i].metric_date >= start_date
             /\ metricTbl[i].metric_date <= end_date
          THEN <<[date |-> IsoFormat(metricTbl[i].metric_date),
                  value |-> metricTbl[i].metric_value]>>
          ELSE <<>>)
         \o StoredEntries(metric_type, start_date, end_date, i + 1)

\* lines 205-231: a placeholder is appended for each date of all_dates that
\* is not among the entries; all_dates[i] = end_date - timedelta(days=i)
RECURSIVE FillDates(_, _, _, _, _)
FillDates(values, metric_type, end_date, i, days) ==
    IF i >= days THEN <<>>
    ELSE (IF \A k \in 1..Len(values) : values[k].date # IsoFormat(end_date - i)
          THEN <<[date |-> IsoFormat(end_date - i),
                  value |-> Placeholder(metric_type)]>>
          ELSE <<>>)
         \o FillDates(values, metric_type, end_date, i + 1, days)

\* list.sort(key=lambda x: x['date']): a stable sort on the date string
RECURSIVE SortByDate(_)
SortByDate(values) ==
    IF values = <<>> THEN <<>>
    ELSE LET x == Head(values)
             rest == SortByDate(Tail(values))
             n == Cardinality({k \in 1..Len(rest) : IsoBefore(rest[k].date, x.date)})
         IN SubSeq(rest, 1, n) \o <<x>> \o SubSeq(rest, n + 1, Len(rest))

\* the series get_moderation_metrics returns for one metric type
SeriesOf(metric_type, end_date, days) ==
    LET values == StoredEntries(metric_type, end_date - days, end_date, 1)
    IN SortByDate(values \o FillDates(values, metric_type, end_date, 0, days))

\* lines 180-237: the metrics in the date range, by type; sample data when
\* there are none
GetMetrics(j, days) ==
    /\ msess[j].pc = "idle"
    /\ LET end_date == today
           start_date == end_date - days
           types == {metricTbl[i].metric_type :
                        i \in {k \in 1..Len(metricTbl) :
                                 /\ metricTbl[k].metric_date >= start_date
                                 /\ metricTbl[k].metric_date <= end_date}}
       IN Returns(j, [op |-> "get_metrics", cid |-> 0, ok |-> TRUE,
                      why |-> IF types = {} THEN "sample" ELSE "ok",
                      days |-> days, end_date |-> end_date,
                      series |-> [t \in types |-> SeriesOf(t, end_date, days)]])
    /\ UNCHANGED <<storeVars, engineVars>>

\* midnight UTC passes
Tick ==
    /\ today < MaxDay
    /\ today' = today + 1
    /\ NoneReturns
    /\ UNCHANGED <<tables, nextId, sess, classified, updLog, metricTbl, msess,
                   engineVars>>

(* ------------------------ routes/admin.py update_status -------------- *)
\* variant: the form's status goes to the processor unvalidated
update_statusUnchecked(w, content_id, status, user_id) ==
    UpdateLoad(w, content_id, status, user_id)

\* lines 135-149: a status other than approved or rejected is answered with
\* "Invalid status provided"; otherwise update_moderation_status is called
update_status(w, content_id, status, user_id) ==
    IF status \notin HumanStatuses
    THEN /\ sess[w].pc = "idle"
         /\ Returns(w, Returned("update", content_id, FALSE, "invalid_status"))
         /\ UNCHANGED <<tables, nextId, sess, classified, updLog, today, aside>>
    ELSE UpdateLoad(w, content_id, status, user_id)

(* ------------------------ moderation/classifier.py -------------------- *)
\* an estimator as constructed: not fitted
Unfitted == [fit |-> 0]

\* __init__, lines 27-29: the category list and two empty dicts
EmptyEngine ==
    [categories |-> Categories("text"), vectorizers |-> <<>>, models |-> <<>>]

\* variant: train takes a name outside the list for a category
KnownOrNew(e) == {e.categories[i] : i \in 1..Len(e.categories)} \cup {"spam"}

\* the categories of an engine, as a set
Known(e) == {e.categories[i] : i \in 1..Len(e.categories)}

\* _initialize_empty_models: a fresh vectorizer and classifier per category
InitializeEmptyModels(e) ==
    [e EXCEPT !.vectorizers = [c \in Known(e) |-> Unfitted],
              !.models = [c \in Known(e) |-> Unfitted]]

\* the engine's owner between calls
IdleOwner == [pc |-> "idle", category |-> NULL, fit |-> 0]

\* what load_model may find under the path: no file, a file pickle.load
\* rejects, a dict without the vectorizers and models keys, or what
\* save_model wrote
ArtifactKinds == {"missing", "corrupt", "partial", "saved"}

\* load_model, lines 134-148, run to its end: a dict's entries replace the
\* engine's fields, a missing key leaves {} (categories: the current list);
\* an exception is caught inside and changes nothing
Loaded(e, file) ==
    CASE file.kind = "saved" ->
            [categories |-> file.data.categories,
             vectorizers |-> file.data.vectorizers, models |-> file.data.models]
      [] file.kind = "partial" ->
            [categories |-> e.categories, vectorizers |-> <<>>, models |-> <<>>]
      [] OTHER -> e

\* __init__, lines 27-48: a new engine replaces the old one; with a path that
\* exists load_model is called, which never raises, otherwise the empty
\* models are initialised
Construct(w, model_path) ==
    /\ tsess.pc = "idle"
    /\ engine' = IF model_path /\ artifact.kind # "missing"
                 THEN Loaded(EmptyEngine, artifact)
                 ELSE InitializeEmptyModels(EmptyEngine)
    /\ Answers(w, [op |-> "construct", cid |-> 0, ok |-> TRUE, why |-> "ok",
                   load_failed |-> model_path /\ artifact.kind # "saved"])
    /\ UNCHANGED <<storeVars, batch, artifact, tsess, fits>>

\* train, lines 68-74: an unknown category returns 0; otherwise the
\* category's vectorizer is fitted in place, unless the lookup or the fit
\* raises
TrainFitVectorizer(w, category, raises) ==
    /\ tsess.pc = "idle"
    /\ fits < MaxFits
    /\ IF category \notin Known(engine)
       THEN /\ Answers(w, [op |-> "train", cid |-> 0, ok |-> FALSE,
                           why |-> "invalid_category", category |-> category])
            /\ UNCHANGED <<engine, tsess, fits>>
       ELSE IF category \notin DOMAIN engine.vectorizers \/ raises
       THEN /\ Answers(w, [op |-> "train", cid |-> 0, ok |-> FALSE,
                           why |-> IF raises THEN "fit_raised" ELSE "KeyError",
                           category |-> category])
            /\ UNCHANGED <<engine, tsess, fits>>
       ELSE /\ engine' = [engine EXCEPT !.vectorizers[category] =
                                            [fit |-> fits + 1]]
            /\ fits' = fits + 1
            /\ tsess' = [pc |-> "vectorizer_fitted", category |-> category,
                         fit |-> fits + 1]
            /\ ret' = [v \in Handlers |-> NoReturn]
    /\ UNCHANGED <<storeVars, batch, artifact>>

\* train, lines 75-85: the category's classifier is fitted in place on the
\* new features and the training accuracy is returned
TrainFitModel(w) ==
    /\ tsess.pc = "vectorizer_fitted"
    /\ tsess.category \in DOMAIN engine.models
    /\ engine' = [engine EXCEPT !.models[tsess.category] = [fit |-> tsess.fit]]
    /\ tsess' = IdleOwner
    /\ Answers(w, [op |-> "train", cid |-> 0, ok |-> TRUE, why |-> "ok",
                   category |-> tsess.category])
    /\ UNCHANGED <<storeVars, batch, artifact, fits>>

\* train, lines 87-89: the classifier's fit raises; logged, 0 is returned
TrainRaise(w) ==
    /\ tsess.pc = "vectorizer_fitted"
    /\ tsess' = IdleOwner
    /\ Answers(w, [op |-> "train", cid |-> 0, ok |-> FALSE, why |-> "fit_raised",
                   category |-> tsess.category])
    /\ UNCHANGED <<storeVars, batch, engine, artifact, fits>>

\* save_model, lines 104-118: the four fields are pickled into the file
SaveModel(w) ==
    /\ tsess.pc = "idle"
    /\ artifact' = [kind |-> "saved",
                    data |-> [categories |-> engine.categories,
                              vectorizers |-> engine.vectorizers,
                              models |-> engine.models]]
    /\ Answers(w, [op |-> "save", cid |-> 0, ok |-> TRUE, why |-> "ok"])
    /\ UNCHANGED <<storeVars, batch, engine, tsess, fits>>

\* save_model, lines 114-122: the file is opened for writing and the dump
\* raises, or the file is written without one of the keys by another tool
SaveRaise(w, kind) ==
    /\ tsess.pc = "idle"
    /\ kind \in {"corrupt", "partial"}
    /\ artifact' = [kind |-> kind]
    /\ Answers(w, [op |-> "save", cid |-> 0, ok |-> FALSE, why |-> "exception"])
    /\ UNCHANGED <<storeVars, batch, engine, tsess, fits>>

\* load_model on a live engine, lines 135-138: the file is unpickled and
\* self.categories is assigned; a failure is caught and returns False
LoadCategories(w) ==
    /\ tsess.pc = "idle"
    /\ IF artifact.kind \in {"missing", "corrupt"}
       THEN /\ Answers(w, [op |-> "load", cid |-> 0, ok |-> FALSE,
                           why |-> "exception"])
            /\ UNCHANGED <<engine, tsess>>
       ELSE /\ engine' = [engine EXCEPT
                             !.categories = Loaded(engine, artifact).categories]
            /\ tsess' = [pc |-> "categories_loaded", category |-> NULL, fit |-> 0]
            /\ ret' = [v \in Handlers |-> NoReturn]
    /\ UNCHANGED <<storeVars, batch, artifact, fits>>

\* line 139: self.vectorizers is assigned
LoadVectorizers(w) ==
    /\ tsess.pc = "categories_loaded"
    /\ engine' = [engine EXCEPT !.vectorizers = Loaded(engine, artifact).vectorizers]
    /\ tsess' = [tsess EXCEPT !.pc = "vectorizers_loaded"]
    /\ ret' = [v \in Handlers |-> NoReturn]
    /\ UNCHANGED <<storeVars, batch, artifact, fits>>

\* lines 140-144: self.models is assigned and True is returned
LoadModels(w) ==
    /\ tsess.pc = "vectorizers_loaded"
    /\ engine' = [engine EXCEPT !.models = Loaded(engine, artifact).models]
    /\ tsess' = IdleOwner
    /\ Answers(w, [op |-> "load", cid |-> 0, ok |-> TRUE, why |-> "ok"])
    /\ UNCHANGED <<storeVars, batch, artifact, fits>>

\* whether a category's pair gives a model score: both estimators are there
\* and fitted, and predict_proba accepts the features (always when both come
\* from one fit; for two different fits only when their feature counts
\* agree) and does not fail
Predicts(e, category, agree, failing) ==
    /\ category \in DOMAIN e.vectorizers
    /\ e.vectorizers[category].fit # 0
    /\ category \in DOMAIN e.models
    /\ e.models[category].fit # 0
    /\ e.vectorizers[category].fit = e.models[category].fit \/ agree
    /\ category \notin failing

\* variant: one category's failure sends every category to the fallback
ClassifiedAllOrNothing(e, agree, failing) ==
    [c \in Known(e) |->
        IF \A d \in Known(e) : Predicts(e, d, agree, failing)
        THEN [kind |-> "model", vectorizer |-> e.vectorizers[c].fit,
              model |-> e.models[c].fit]
        ELSE [kind |-> "fallback"]]

\* classify_text, lines 161-187: random scores for all when either dict is
\* empty; otherwise per category the model's probability, or a random score
\* when the vectorizer is missing or anything raises
Classified(e, agree, failing) ==
    [c \in Known(e) |->
        IF /\ DOMAIN e.models # {}
           /\ DOMAIN e.vectorizers # {}
           /\ Predicts(e, c, agree, failing)
        THEN [kind |-> "model", vectorizer |-> e.vectorizers[c].fit,
              model |-> e.models[c].fit]
        ELSE [kind |-> "fallback"]]

\* classify_text called by handler w at any moment, also while the owner is
\* inside train or load_model; y_prob[1] is some probability,
\* random.uniform(0.1, 0.9) some number between its ends
classify_text(w, agree, failing, draws) ==
    /\ LET how == Classified(engine, agree, failing)
       IN Answers(w, [op |-> "classify", cid |-> 0, ok |-> TRUE, why |-> "ok",
                      failing |-> failing, agree |-> agree,
                      how |-> how,
                      results |-> [c \in DOMAIN how |->
                                      IF how[c].kind = "model"
                                      THEN draws.probability
                                      ELSE draws.uniform]])
    /\ UNCHANGED <<storeVars, batch, engineVars>>

(* ---------------- moderation/utils.py preprocess_text ----------------- *)
\* a text is a sequence of characters
LowerOf ==
    [A |-> "a", E |-> "e", I |-> "i", L |-> "l", M |-> "m", N |-> "n", R |-> "r",
     U |-> "u"]
Letters ==
    {"a", "e", "h", "i", "l", "m", "n", "p", "r", "s", "t", "u", "w"}
        \cup DOMAIN LowerOf
Digits == {"7"}
IsSpace(ch) == ch = " "
\* the regular expression class \w
IsWord(ch) == ch \in Letters \cup Digits \cup {"_"}

\* str.lower
ToLower(text) ==
    [i \in 1..Len(text) |->
        IF text[i] \in DOMAIN LowerOf THEN LowerOf[text[i]] ELSE text[i]]

RECURSIVE JoinSplit(_, _, _)
\* ' '.join(text.split()): the words of the text with one space between them
JoinSplit(text, i, acc) ==
    IF i > Len(text) THEN acc
    ELSE IF IsSpace(text[i]) THEN JoinSplit(text, i + 1, acc)
    ELSE IF acc # <<>> /\ IsSpace(text[i - 1])
    THEN JoinSplit(text, i + 1, acc \o <<" ", text[i]>>)
    ELSE JoinSplit(text, i + 1, Append(acc, text[i]))

NotSpace(ch) == ~IsSpace(ch)
IsDigit(ch) == ch \in Digits

RECURSIVE WordEnd(_, _)
\* the last position of the run of non-space characters that holds i
WordEnd(text, i) ==
    IF i < Len(text) /\ NotSpace(text[i + 1]) THEN WordEnd(text, i + 1) ELSE i

RECURSIVE NumberEnd(_, _)
\* the last position of the run of digits that holds i
NumberEnd(text, i) ==
    IF i < Len(text) /\ IsDigit(text[i + 1]) THEN NumberEnd(text, i + 1) ELSE i

\* the literal lit stands at position i and a non-space character follows it
Opens(text, i, lit) ==
    /\ i + Len(lit) <= Len(text)
    /\ SubSeq(text, i, i + Len(lit) - 1) = lit
    /\ NotSpace(text[i + Len(lit)])

\* https?://\S+|www\.\S+ matches at position i
UrlAt(text, i) ==
    \E lit \in {<<"h", "t", "t", "p", ":", "/", "/">>,
                 <<"h", "t", "t", "p", "s", ":", "/", "/">>,
                 <<"w", "w", "w", ".">>} : Opens(text, i, lit)

RECURSIVE SubUrls(_, _, _)
\* line 32: each match, which runs to the end of its word, becomes [URL]
SubUrls(text, i, acc) ==
    IF i > Len(text) THEN acc
    ELSE IF UrlAt(text, i)
    THEN SubUrls(text, WordEnd(text, i) + 1,
                 acc \o <<"[", "U", "R", "L", "]">>)
    ELSE SubUrls(text, i + 1, Append(acc, text[i]))

RECURSIVE SubEmails(_, _, _)
\* line 35, \S+@\S+: a word with an @ that is neither its first nor its last
\* character becomes [EMAIL] as a whole
SubEmails(text, i, acc) ==
    IF i > Len(text) THEN acc
    ELSE IF IsSpace(text[i]) THEN SubEmails(text, i + 1, Append(acc, text[i]))
    ELSE LET e == WordEnd(text, i)
         IN IF \E k \in (i + 1)..(e - 1) : text[k] = "@"
            THEN SubEmails(text, e + 1, acc \o <<"[", "E", "M", "A", "I", "L", "]">>)
            ELSE SubEmails(text, e + 1, acc \o SubSeq(text, i, e))

\* line 38, [^\w\s]: every other character becomes a space
SubSpecial(text) ==
    [i \in 1..Len(text) |->
        IF IsWord(text[i]) \/ IsSpace(text[i]) THEN text[i] ELSE " "]

RECURSIVE SubNumbers(_, _, _)
\* line 41, \d+: every run of digits becomes [NUM]
SubNumbers(text, i, acc) ==
    IF i > Len(text) THEN acc
    ELSE IF IsDigit(text[i])
    THEN SubNumbers(text, NumberEnd(text, i) + 1,
                    acc \o <<"[", "N", "U", "M", "]">>)
    ELSE SubNumbers(text, i + 1, Append(acc, text[i]))

\* preprocess_text, lines 22-46
preprocess_text(text) ==
    IF text = <<>> THEN <<>>
    ELSE LET spaced == JoinSplit(ToLower(text), 1, <<>>)
             urls == SubUrls(spaced, 1, <<>>)
             emails == SubEmails(urls, 1, <<>>)
             numbers == SubNumbers(SubSpecial(emails), 1, <<>>)
         IN JoinSplit(numbers, 1, <<>>)

\* what texts are put together from
Pieces ==
    {<<"h", "t", "t", "p", ":", "/", "/">>, <<"w", "w", "w", ".">>, <<"a">>,
     <<"M">>, <<"7">>, <<" ">>, <<"@">>, <<"!">>}

RECURSIVE Concat(_)
Concat(pieces) == IF pieces = <<>> THEN <<>> ELSE Head(pieces) \o Concat(Tail(pieces))

Texts == {Concat(ps) : ps \in UNION {[1..n -> Pieces] : n \in 0..MaxPieces}}

\* preprocess_text called with a text
Preprocess(w, text) ==
    /\ Answers(w, [op |-> "preprocess", cid |-> 0, ok |-> TRUE, why |-> "ok",
                   text |-> text, result |-> preprocess_text(text)])
    /\ UNCHANGED <<storeVars, batch, engineVars>>

(* ------------------------ moderation/train_model.py ------------------- *)
\* category names in the order pandas' groupby yields them
SortedNames ==
    <<"harassment", "hate_speech", "profanity", "sexual_content", "spam", "violence">>

\* the groups of a dataset: the distinct values of its category column, sorted
GroupsOf(S) == SelectSeq(SortedNames, LAMBDA c : c \in S)

\* the files train_from_csv is given: none, one read_csv rejects, one without
\* a required column, or one with rows for some known categories and for a
\* name that is no category
Datasets ==
    {[file |-> f, groups |-> <<>>] : f \in {"missing", "unreadable", "no_columns"}}
        \cup {[file |-> "ok", groups |-> GroupsOf(S)] :
                 S \in SUBSET (Known(EmptyEngine) \cup {"spam"})}

\* what happens to one group: train_test_split raises (a group too small to
\* split), the fit inside train raises, or the category is fitted
GroupOutcomes == {"split_raises", "fit_raises", "fitted"}

\* ContentClassifier.train run to its end on engine e as fit number n
Trained(e, category, n, outcome) ==
    IF category \notin Known(e) \/ category \notin DOMAIN e.vectorizers THEN e
    ELSE IF outcome = "fitted"
    THEN [e EXCEPT !.vectorizers[category] = [fit |-> n],
                   !.models[category] = [fit |-> n]]
    ELSE [e EXCEPT !.vectorizers[category] = [fit |-> n]]

\* a dict with one more key
WithKey(dict, key, value) ==
    [k \in DOMAIN dict \cup {key} |-> IF k = key THEN value ELSE dict[k]]

\* train_from_csv, lines 25-50: the file and its columns are checked, then a
\* new classifier is constructed for the run
train_from_csv(w, dataset) ==
    /\ batch[w].kind = "none"
    /\ tsess.pc = "idle"
    /\ IF dataset.file # "ok"
       THEN /\ Answers(w, [op |-> "train_from_csv", cid |-> 0, ok |-> FALSE,
                           why |-> CASE dataset.file = "missing" -> "file_not_found"
                                     [] dataset.file = "no_columns" -> "missing_columns"
                                     [] OTHER -> "exception"])
            /\ UNCHANGED <<batch, engine, fits>>
       ELSE /\ engine' = InitializeEmptyModels(EmptyEngine)
            /\ fits' = 0
            /\ batch' = [batch EXCEPT ![w] =
                            [kind |-> "train_from_csv", items |-> dataset.groups,
                             i |-> 1, results |-> <<>>, raised |-> {}]]
            /\ ret' = [v \in Handlers |-> NoReturn]
    /\ UNCHANGED <<storeVars, artifact, tsess>>

\* train_from_csv, lines 68-82: whatever train returned is stored under the
\* category, 0 when the fit raised
TrainCsvRecorded(b, category, outcome) ==
    [b EXCEPT !.i = @ + 1,
              !.results = WithKey(@, category,
                  [train_accuracy |-> IF outcome = "fitted" THEN 100 ELSE 0]),
              !.raised = IF outcome = "fitted" THEN @ ELSE @ \cup {category}]

\* train_from_csv, lines 52-82 and 97-102: one group of the loop; an unknown
\* category is skipped, an exception outside train ends the call
TrainCsvCategory(w, outcome) ==
    /\ batch[w].kind = "train_from_csv"
    /\ batch[w].i <= Len(batch[w].items)
    /\ LET category == batch[w].items[batch[w].i]
       IN IF category \notin Known(engine)
          THEN /\ batch' = [batch EXCEPT ![w].i = @ + 1]
               /\ ret' = [v \in Handlers |-> NoReturn]
               /\ UNCHANGED <<engine, fits>>
          ELSE IF outcome = "split_raises"
          THEN /\ Answers(w, [op |-> "train_from_csv", cid |-> 0, ok |-> FALSE,
                              why |-> "exception"])
               /\ batch' = [batch EXCEPT ![w] = NoBatch]
               /\ UNCHANGED <<engine, fits>>
          ELSE /\ engine' = Trained(engine, category, fits + 1, outcome)
               /\ fits' = fits + 1
               /\ batch' = [batch EXCEPT ![w] =
                               TrainCsvRecorded(@, category, outcome)]
               /\ ret' = [v \in Handlers |-> NoReturn]
    /\ UNCHANGED <<storeVars, artifact, tsess>>

\* train_from_csv, lines 84-95: the classifier is saved and the results are
\* returned; model_path is None when save_model returned False
TrainCsvReturn(w, save_success) ==
    /\ batch[w].kind = "train_from_csv"
    /\ batch[w].i > Len(batch[w].items)
    /\ artifact' = IF save_success
                   THEN [kind |-> "saved",
                         data |-> [categories |-> engine.categories,
                                   vectorizers |-> engine.vectorizers,
                                   models |-> engine.models]]
                   ELSE [kind |-> "corrupt"]
    /\ Answers(w, [op |-> "train_from_csv", cid |-> 0, ok |-> TRUE, why |-> "ok",
                   groups |-> batch[w].items, raised |-> batch[w].raised,
                   categories |-> DOMAIN batch[w].results,
                   results |-> batch[w].results, model_path |-> save_success])
    /\ batch' = [batch EXCEPT ![w] = NoBatch]
    /\ UNCHANGED <<storeVars, engine, tsess, fits>>

\* routes/api.py line 39 with processor.py lines 24 and 78: the route builds
\* ContentProcessor(), whose ContentClassifier gets model_path None, and a
\* text is classified with that engine
moderate_content(w, agree, failing, draws) ==
    /\ batch[w].kind = "none"
    /\ tsess.pc = "idle"
    /\ engine' = InitializeEmptyModels(EmptyEngine)
    /\ LET how == Classified(engine', agree, failing)
       IN Answers(w, [op |-> "moderate", cid |-> 0, ok |-> TRUE, why |-> "ok",
                      how |-> how,
                      results |-> [c \in DOMAIN how |->
                                      IF how[c].kind = "model"
                                      THEN draws.probability
                                      ELSE draws.uniform]])
    /\ UNCHANGED <<storeVars, batch, artifact, tsess, fits>>

(* ------------------------- moderation/training.py --------------------- *)
\* the files ModelTrainer.train_model is given; "ok" has the text column and
\* a binary column per category
TrainerFiles == {"missing", "unreadable", "no_columns", "ok"}

\* ModelTrainer(), lines 24-25, and train_model, lines 45-60: the trainer's
\* classifier is constructed; the file and its columns are checked, and what
\* is wrong is raised to the caller
train_model(w, file) ==
    /\ batch[w].kind = "none"
    /\ tsess.pc = "idle"
    /\ engine' = InitializeEmptyModels(EmptyEngine)
    /\ fits' = 0
    /\ IF file # "ok"
       THEN /\ Answers(w, [op |-> "train_model", cid |-> 0, ok |-> FALSE,
                           why |-> CASE file = "missing" -> "FileNotFoundError"
                                     [] file = "no_columns" -> "ValueError"
                                     [] OTHER -> "exception",
                           file |-> file, categories |-> {}])
            /\ UNCHANGED batch
       ELSE /\ batch' = [batch EXCEPT ![w] =
                            [kind |-> "train_model", items |-> engine'.categories,
                             i |-> 1, results |-> <<>>]]
            /\ ret' = [v \in Handlers |-> NoReturn]
    /\ UNCHANGED <<storeVars, artifact, tsess>>

\* train_model, lines 61-77 and 101-103: the split raises, or the category is
\* trained (train returns whether or not its fit raised) and line 76 reads
\* self.classifier.model, an attribute ContentClassifier does not have (its
\* dict is self.models): AttributeError, logged and raised again. Lines
\* 79-99, the later categories and save_model are never reached.
TrainModelCategory(w, outcome) ==
    /\ batch[w].kind = "train_model"
    /\ batch[w].i <= Len(batch[w].items)
    /\ IF outcome = "split_raises"
       THEN /\ Answers(w, [op |-> "train_model", cid |-> 0, ok |-> FALSE,
                           why |-> "exception", file |-> "ok",
                           categories |-> DOMAIN batch[w].results])
            /\ UNCHANGED <<engine, fits>>
       ELSE /\ engine' = Trained(engine, batch[w].items[batch[w].i], fits + 1, outcome)
            /\ fits' = fits + 1
            /\ Answers(w, [op |-> "train_model", cid |-> 0, ok |-> FALSE,
                           why |-> "AttributeError", file |-> "ok",
                           categories |-> DOMAIN batch[w].results])
    /\ batch' = [batch EXCEPT ![w] = NoBatch]
    /\ UNCHANGED <<storeVars, artifact, tsess>>

\* classifier.py lines 30-37 and 189-191: the thresholds, in hundredths, and
\* get_threshold with its default
Thresholds ==
    [profanity |-> 70, hate_speech |-> 65, violence |-> 70, sexual_content |-> 70,
     harassment |-> 65, overall |-> 60]
get_threshold(category) ==
    IF category \in DOMAIN Thresholds THEN Thresholds[category] ELSE 50

\* the held-out sets: per text the score classify_text gives the category
\* and the label
TestSets ==
    UNION {[1..n -> [score : {10, 69, 70}, label : {0, 1}]] : n \in 0..MaxTest}

\* evaluate_category, line 234
Prediction(score, category) == IF score >= get_threshold(category) THEN 1 ELSE 0

\* sum(1 for p, l in zip(predictions, labels) if p == prediction and l == label)
Tally(tests, category, prediction, label) ==
    Cardinality({k \in 1..Len(tests) :
                    /\ Prediction(tests[k].score, category) = prediction
                    /\ tests[k].label = label})

\* variant: an undefined ratio counts as 1
RatioOrOne(n, d) == IF d > 0 THEN [num |-> n, den |-> d] ELSE [num |-> 1, den |-> 1]

\* n / d if d > 0 else 0, as the fraction num/den
Ratio(n, d) == IF d > 0 THEN [num |-> n, den |-> d] ELSE [num |-> 0, den |-> 1]

\* evaluate_category, lines 238-255
Evaluated(tests, category) ==
    LET true_positives == Tally(tests, category, 1, 1)
        false_positives == Tally(tests, category, 1, 0)
        false_negatives == Tally(tests, category, 0, 1)
        correct == true_positives + Tally(tests, category, 0, 0)
        precision == Ratio(true_positives, true_positives + false_positives)
        recall == Ratio(true_positives, true_positives + false_negatives)
    IN [accuracy |-> Ratio(correct, Len(tests)),
        precision |-> precision,
        recall |-> recall,
        \* 2 * precision * recall / (precision + recall) if the sum is > 0
        f1_score |-> Ratio(2 * precision.num * recall.num,
                           precision.num * recall.den + recall.num * precision.den)]

\* evaluate_category called with a held-out set
evaluate_category(w, category, tests) ==
    /\ Answers(w, [op |-> "evaluate", cid |-> 0, ok |-> TRUE, why |-> "ok",
                   category |-> category, tests |-> tests,
                   metrics |-> Evaluated(tests, category)])
    /\ UNCHANGED <<storeVars, batch, engineVars>>

(* ------------------ routes/api.py batch_moderate ---------------------- *)
\* the items a batch request may carry: with or without a content field
RequestItems == [has_content : BOOLEAN, content_type : {"text"}]

\* the lists of up to MaxBatch elements of a set
ListsOf(S) == UNION {[1..n -> S] : n \in 0..MaxBatch}

\* variant: no item is skipped
BatchItemsAll(items) == items

\* lines 97-109: the items that have a content field, as batch_process takes
\* them
BatchItems(items) == SelectSeq(items, LAMBDA item : item.has_content)

\* lines 91-112: the request is converted and batch_process is entered
batch_moderate(w, items) ==
    /\ sess[w].pc = "idle"
    /\ batch[w].kind = "none"
    /\ nextId + Len(items) <= MaxBatch + 1
    /\ batch' = [batch EXCEPT ![w] =
                    [kind |-> "batch_process", items |-> BatchItems(items),
                     i |-> 1, results |-> <<>>,
                     given |-> items, at_start |-> Len(contentTbl)]]
    /\ ret' = [v \in Handlers |-> NoReturn]
    /\ UNCHANGED <<tables, nextId, sess, classified, updLog, today, aside>>

\* batch_process, lines 167-173: process_content is called for the next item
BatchProcessNext(w) ==
    /\ batch[w].kind = "batch_process"
    /\ batch[w].i <= Len(batch[w].items)
    /\ ProcessBegin(w, batch[w].items[batch[w].i].content_type, NULL, MaxBatch)

\* batch_process line 178 and batch_moderate lines 114-134: the loop is over;
\* no result is answered as a failure, otherwise the results are counted
BatchModerateReturn(w) ==
    /\ batch[w].kind = "batch_process"
    /\ batch[w].i > Len(batch[w].items)
    /\ sess[w].pc = "idle"
    /\ Answers(w, IF batch[w].results = <<>>
                  THEN [op |-> "batch_moderate", cid |-> 0, ok |-> FALSE,
                        why |-> "Failed to process batch",
                        request |-> batch[w].given]
                  ELSE [op |-> "batch_moderate", cid |-> 0, ok |-> TRUE,
                        why |-> "ok", request |-> batch[w].given,
                        processed_count |-> Len(batch[w].results),
                        results |-> batch[w].results])
    /\ batch' = [batch EXCEPT ![w] = NoBatch]
    /\ UNCHANGED <<tables, nextId, sess, classified, updLog, today, aside>>

(* ------------------ routes/admin.py batch_action ---------------------- *)
\* the values content_ids may carry: a number, or text int() rejects
SelectedIds == [numeric : {TRUE}, id : {1, 2}] \cup {[numeric |-> FALSE, id |-> 0]}

\* lines 170-183: a selection and an action of approve or reject start the loop
batch_action(w, action, content_ids, user_id) ==
    /\ sess[w].pc = "idle"
    /\ batch[w].kind = "none"
    /\ Len(updLog) + Len(content_ids) <= MaxBatch
    /\ IF content_ids = <<>> \/ action \notin {"approve", "reject"}
       THEN /\ Answers(w, [op |-> "batch_action", cid |-> 0, ok |-> FALSE,
                           why |-> IF content_ids = <<>> THEN "No items selected"
                                   ELSE "Invalid action"])
            /\ UNCHANGED batch
       ELSE /\ batch' = [batch EXCEPT ![w] =
                           [kind |-> "batch_action", items |-> content_ids,
                            i |-> 1, success_count |-> 0,
                            status |-> IF action = "approve" THEN "approved"
                                       ELSE "rejected",
                            user_id |-> user_id,
                            at_start |-> [statuses |-> statusTbl,
                                          actions |-> actionTbl,
                                          updates |-> Len(updLog)]]]
            /\ ret' = [v \in Handlers |-> NoReturn]
    /\ UNCHANGED <<tables, nextId, sess, classified, updLog, today, aside>>

\* lines 185-192: update_moderation_status is called for the next id
BatchActionNext(w) ==
    /\ batch[w].kind = "batch_action"
    /\ batch[w].i <= Len(batch[w].items)
    /\ batch[w].items[batch[w].i].numeric
    /\ UpdateLoad(w, batch[w].items[batch[w].i].id, batch[w].status,
                  batch[w].user_id)

\* lines 188 and 195-196: int(content_id) raises; logged, on to the next id
BatchActionSkip(w) ==
    /\ batch[w].kind = "batch_action"
    /\ batch[w].i <= Len(batch[w].items)
    /\ ~batch[w].items[batch[w].i].numeric
    /\ sess[w].pc = "idle"
    /\ batch' = [batch EXCEPT ![w].i = @ + 1]
    /\ ret' = [v \in Handlers |-> NoReturn]
    /\ UNCHANGED <<tables, nextId, sess, classified, updLog, today, aside>>

\* lines 198-199: the loop is over; the success count is reported
BatchActionReturn(w) ==
    /\ batch[w].kind = "batch_action"
    /\ batch[w].i > Len(batch[w].items)
    /\ sess[w].pc = "idle"
    /\ Answers(w, [op |-> "batch_action", cid |-> 0, ok |-> TRUE, why |-> "ok",
                   request |-> batch[w].items,
                   success_count |-> batch[w].success_count,
                   total |-> Len(batch[w].items)])
    /\ batch' = [batch EXCEPT ![w] = NoBatch]
    /\ UNCHANGED <<tables, nextId, sess, classified, updLog, today, aside>>

(* --------------------------- specifications --------------------------- *)
Init ==
    /\ contentTbl = <<>>
    /\ statusTbl = <<>>
    /\ flagTbl = <<>>
    /\ actionTbl = <<>>
    /\ nextId = 1
    /\ sess = [w \in Workers |-> IdleSess]
    /\ ret = [w \in Handlers |-> NoReturn]
    /\ classified = <<>>
    /\ updLog = <<>>
    /\ today = 1
    /\ metricTbl = <<>>
    /\ msess = [j \in Jobs |-> IdleJob]
    /\ batch = [h \in Handlers |-> NoBatch]
    /\ engine = InitializeEmptyModels(EmptyEngine)
    /\ artifact = [kind |-> "missing"]
    /\ tsess = IdleOwner
    /\ fits = 0

\* review: handlers ingest content and moderators override statuses, concurrently
Next ==
    \E w \in Workers :
        \/ ProcessBegin(w, "text", NULL, MaxContent)
        \/ \E scores \in ReviewScoreSets : ProcessClassify(w, scores, ReviewLatencies)
        \/ ProcessCommit(w)
        \/ ProcessRaise(w)
        \/ \E cid \in 1..(MaxContent + 1), s \in HumanStatuses, u \in Reviewers :
               UpdateLoad(w, cid, s, u)
        \/ UpdateCommit(w)
        \/ UpdateRaise(w)

Spec == Init /\ [][Next]_vars

\* decisions: one handler ingests content and serves the review form, whatever
\* status the form carries
NextDecision ==
    \E w \in {"w1"} :
        \/ ProcessBegin(w, "text", NULL, MaxContent)
        \/ \E scores \in ReviewScoreSets : ProcessClassify(w, scores, ReviewLatencies)
        \/ ProcessCommit(w)
        \/ ProcessRaise(w)
        \/ \E cid \in 1..(MaxContent + 1), s \in RequestedStatuses, u \in Reviewers :
               update_status(w, cid, s, u)
        \/ UpdateCommit(w)
        \/ UpdateRaise(w)

SpecDecision == Init /\ [][NextDecision]_vars

\* ingest: one handler ingests content of every kind, scored anywhere around the
\* thresholds
NextIngest ==
    \E w \in {"w1"} :
        \/ \E t \in ContentTypes : ProcessBegin(w, t, NULL, MaxIngest)
        \/ ProcessClassify(w, ScoreSamples, ReviewLatencies)
        \/ ProcessCommit(w)
        \/ ProcessRaise(w)

SpecIngest == Init /\ [][NextIngest]_vars

\* aggregation: one handler ingests while two handlers run the metrics routes
\* and the days pass
NextMetrics ==
    \/ ProcessBegin("w1", "text", NULL, MaxIngest)
    \/ \E scores \in MetricScoreSets : ProcessClassify("w1", scores, ReviewLatencies)
    \/ ProcessCommit("w1")
    \/ Tick
    \/ \E j \in Jobs :
           \/ GenerateBegin(j)
           \/ GenerateCommit(j)
           \/ GenerateRaise(j)
    \/ \E days \in Windows : GetMetrics("j1", days)

SpecMetrics == Init /\ [][NextMetrics]_vars

\* aggregation query by query: one job generates metrics while a handler
\* ingests content
NextAggregate ==
    \/ ProcessBegin("w1", "text", NULL, MaxIngest)
    \/ \E scores \in MetricScoreSets : ProcessClassify("w1", scores, ReviewLatencies)
    \/ ProcessCommit("w1")
    \/ Tick
    \/ GenerateBegin("j1")
    \/ GenerateQuery("j1")
    \/ GenerateCommitAdded("j1")

SpecAggregate == Init /\ [][NextAggregate]_vars

\* storage: submissions of every type and size around the limit are processed
NextStore ==
    \/ \E content_text \in Submissions, t \in ContentTypes, metadata \in Metadatas :
           ProcessStore("w1", content_text, t, NULL, metadata, MaxIngest)
    \/ \E scores \in MetricScoreSets : ProcessClassify("w1", scores, ReviewLatencies)
    \/ ProcessCommit("w1")
    \/ ProcessRaise("w1")

SpecStore == Init /\ [][NextStore]_vars

\* a handler inside a batch loop makes the loop's calls only
InLoop(w, kind) == batch[w].kind = kind /\ batch[w].i <= Len(batch[w].items)

\* batches: one handler serves batch_moderate and batch_action requests
NextBatch ==
    \E w \in {"w1"} :
        \/ \E items \in ListsOf(RequestItems) : batch_moderate(w, items)
        \/ BatchProcessNext(w)
        \/ \E scores \in BatchScoreSets : ProcessClassify(w, scores, ReviewLatencies)
        \/ ProcessCommit(w)
        \/ InLoop(w, "batch_process") /\ ProcessRaise(w)
        \/ BatchModerateReturn(w)
        \/ \E action \in {"approve", "reject", "escalate"},
              content_ids \in ListsOf(SelectedIds), u \in Reviewers :
               batch_action(w, action, content_ids, u)
        \/ BatchActionNext(w)
        \/ BatchActionSkip(w)
        \/ UpdateCommit(w)
        \/ InLoop(w, "batch_action") /\ UpdateRaise(w)
        \/ BatchActionReturn(w)

SpecBatch == Init /\ [][NextBatch]_vars

\* engine: an owner constructs, trains, saves and loads one engine while
\* another handler classifies with it
NextEngine ==
    \/ \E model_path \in BOOLEAN : Construct("w1", model_path)
    \/ \E category \in Known(EmptyEngine) \cup {"spam"}, raises \in BOOLEAN :
           TrainFitVectorizer("w1", category, raises)
    \/ TrainFitModel("w1")
    \/ TrainRaise("w1")
    \/ SaveModel("w1")
    \/ \E kind \in {"corrupt", "partial"} : SaveRaise("w1", kind)
    \/ LoadCategories("w1")
    \/ LoadVectorizers("w1")
    \/ LoadModels("w1")
    \/ \E agree \in BOOLEAN, failing \in Failing, draws \in Draws :
           classify_text("w2", agree, failing, draws)

SpecEngine == Init /\ [][NextEngine]_vars

\* training: runs that build, train and save an engine
NextTraining ==
    \/ \E dataset \in Datasets : train_from_csv("w1", dataset)
    \/ \E outcome \in GroupOutcomes : TrainCsvCategory("w1", outcome)
    \/ \E save_success \in BOOLEAN : TrainCsvReturn("w1", save_success)
    \/ \E draws \in Draws : moderate_content("w1", TRUE, {}, draws)
    \/ \E file \in TrainerFiles : train_model("w1", file)
    \/ \E outcome \in GroupOutcomes : TrainModelCategory("w1", outcome)

SpecTraining == Init /\ [][NextTraining]_vars

\* evaluation: evaluate_category applied once to some held-out set
NextEvaluate ==
    /\ ret["w1"].op = "none"
    /\ \E category \in Known(EmptyEngine), tests \in TestSets :
          evaluate_category("w1", category, tests)

SpecEvaluate == Init /\ [][NextEvaluate]_vars

\* preprocessing: preprocess_text applied once to some text
NextPreprocess ==
    /\ ret["w1"].op = "none"
    /\ \E text \in Texts : Preprocess("w1", text)

SpecPreprocess == Init /\ [][NextPreprocess]_vars

(* ------------------------ reading the store -------------------------- *)
CommittedIds == {contentTbl[i].id : i \in 1..Len(contentTbl)}

AllocatedIds == 1..(nextId - 1)

ContentRows(cid) == SelectSeq(contentTbl, LAMBDA r : r.id = cid)

SetMax(S) == CHOOSE m \in S : \A x \in S : x <= m

\* how many rows of a table carry a given flag type for a content item
FlagCount(cid, category) ==
    Len(SelectSeq(flagTbl,
                  LAMBDA r : r.content_id = cid /\ r.flag_type = category))

\* an item is wholly visible: its Content row, its one ModerationStatus, its
\* first ModerationAction and one ContentFlag per flag its scores call for
WhollyVisible(cid) ==
    /\ Len(ContentRows(cid)) = 1
    /\ Len(RowsOf(statusTbl, cid)) = 1
    /\ Len(RowsOf(actionTbl, cid)) >= 1
    /\ RowsOf(actionTbl, cid)[1].user_id = NULL
    /\ cid \in DOMAIN classified
    /\ Len(RowsOf(flagTbl, cid)) =
           Cardinality({c \in DOMAIN classified[cid] : classified[cid][c] > 30})

\* nothing of an item is visible in any table
Invisible(cid) ==
    /\ ContentRows(cid) = <<>>
    /\ RowsOf(statusTbl, cid) = <<>>
    /\ RowsOf(flagTbl, cid) = <<>>
    /\ RowsOf(actionTbl, cid) = <<>>

(* ------------------------------- claims ------------------------------- *)

\* C1: every item created by process_content is rejected exactly when its
\* overall score is above 0.8, approved exactly when it is below 0.3, and
\* pending otherwise; 0.8 itself is not rejected and 0.3 itself is not approved.
C1_InitialDisposition ==
    \A i \in 1..Len(statusTbl) :
        LET r == statusTbl[i]
            first == RowsOf(actionTbl, r.content_id)[1]
        IN r.is_automated =>
              /\ (r.status = "rejected") <=> (r.moderation_score > 80)
              /\ (r.status = "approved") <=> (r.moderation_score < 30)
              /\ (r.status = "pending") <=>
                     (r.moderation_score >= 30 /\ r.moderation_score <= 80)
              /\ first.action_type = AutomatedType(r.status)

\* an item scored exactly 0.8 was ingested, and is pending
C1_Witness ==
    \E i \in 1..Len(statusTbl) :
        /\ statusTbl[i].moderation_score = 80
        /\ statusTbl[i].status = "pending"
        /\ statusTbl[i].is_automated

\* C2: the persisted overall score of every item created by process_content is
\* the maximum of the per-category scores obtained for it in the same call.
C2_OverallIsMax ==
    \A i \in 1..Len(statusTbl) :
        LET cid == statusTbl[i].content_id
        IN /\ cid \in DOMAIN classified
           /\ statusTbl[i].moderation_score =
                  SetMax({classified[cid][c] : c \in DOMAIN classified[cid]})

\* a media item whose first category outscores its last one was ingested
C2_Witness ==
    \E i \in 1..Len(contentTbl) :
        LET cid == contentTbl[i].id
            cats == Categories(contentTbl[i].content_type)
        IN /\ contentTbl[i].content_type \in {"image", "video"}
           /\ classified[cid][cats[1]] = 81
           /\ classified[cid][cats[Len(cats)]] = 29
           /\ RowsOf(statusTbl, cid)[1].moderation_score = 81

\* C3: for every ingested item there is exactly one ContentFlag for each
\* category scored above 0.3, carrying that score, and none for a category
\* scored 0.3 or less; no item ever has two flags for one category and no flag
\* belongs to anything but an ingested item's scored categories.
C3_FlagsPerCategory ==
    /\ \A cid \in CommittedIds :
          \A c \in DOMAIN classified[cid] :
              /\ FlagCount(cid, c) = (IF classified[cid][c] > 30 THEN 1 ELSE 0)
              /\ \A i \in 1..Len(flagTbl) :
                    (flagTbl[i].content_id = cid /\ flagTbl[i].flag_type = c)
                        => flagTbl[i].flag_score = classified[cid][c]
    /\ \A i \in 1..Len(flagTbl) :
          /\ flagTbl[i].content_id \in CommittedIds
          /\ flagTbl[i].flag_type \in DOMAIN classified[flagTbl[i].content_id]

\* an item with one category at exactly 0.3 and another at 0.31 was ingested:
\* it has the one flag
C3_Witness ==
    \E cid \in CommittedIds :
        /\ \E c \in DOMAIN classified[cid] : classified[cid][c] = 30
        /\ \E c \in DOMAIN classified[cid] : classified[cid][c] = 31
        /\ Len(RowsOf(flagTbl, cid)) = 1

\* C4: process_content is all-or-nothing: every content id ever drawn is either
\* wholly visible (Content, ModerationStatus, flags, first ModerationAction) or
\* not visible at all; nothing of a call in flight is visible; a call that
\* returns None leaves nothing behind, and a call that returns a record has
\* made all of it visible.
C4_AllOrNothing ==
    /\ \A cid \in AllocatedIds : WhollyVisible(cid) \/ Invisible(cid)
    /\ \A i \in 1..Len(statusTbl) : statusTbl[i].content_id \in AllocatedIds
    /\ \A i \in 1..Len(flagTbl) : flagTbl[i].content_id \in AllocatedIds
    /\ \A i \in 1..Len(actionTbl) : actionTbl[i].content_id \in AllocatedIds
    /\ \A w \in Workers :
          /\ sess[w].pc \in {"flushed", "built"} => Invisible(sess[w].cid)
          /\ (ret[w].op = "process" /\ ~ret[w].ok /\ ret[w].cid \in AllocatedIds)
                 => Invisible(ret[w].cid)
          /\ (ret[w].op = "process" /\ ret[w].ok) => WhollyVisible(ret[w].cid)

\* a call that had already flushed its Content row failed and returned None
C4_Witness ==
    \E w \in Workers :
        ret[w].op = "process" /\ ~ret[w].ok /\ ret[w].cid \in AllocatedIds

\* the committed update_moderation_status calls on one item, in commit order
UpdatesOf(cid) == SelectSeq(updLog, LAMBDA e : e.cid = cid)

\* the disposition an action row records as set
DispositionSetBy(action_type) ==
    CASE action_type = "automated_pending" -> "pending"
      [] action_type = "automated_approved" -> "approved"
      [] action_type = "automated_rejected" -> "rejected"
      [] OTHER -> action_type

\* C5 as stated: after N calls to update_moderation_status on an item exactly N
\* ModerationAction rows exist for it, each with a non-null previous_status.
C5_ExactlyNRows ==
    \A cid \in CommittedIds :
        LET rows == RowsOf(actionTbl, cid)
            n == Len(UpdatesOf(cid))
        IN n >= 1 =>
              /\ Len(rows) = n
              /\ \A k \in 1..Len(rows) : rows[k].previous_status # NULL

\* C5, amended: after N update_moderation_status calls on an item have
\* returned a status, exactly N + 1 ModerationAction rows exist for it: the
\* automated one written by process_content, with a null previous_status and
\* no user, then one per call in commit order, each with the requested status
\* and a non-null previous_status equal to the disposition that call loaded.
C5_AuditComplete ==
    \A cid \in CommittedIds :
        LET rows == RowsOf(actionTbl, cid)
            log == UpdatesOf(cid)
        IN /\ Len(rows) = Len(log) + 1
           /\ rows[1].previous_status = NULL
           /\ rows[1].user_id = NULL
           /\ \A k \in 1..Len(log) :
                 /\ rows[k + 1].action_type = log[k].requested
                 /\ rows[k + 1].previous_status # NULL
                 /\ rows[k + 1].previous_status = log[k].before
                 /\ rows[k + 1].previous_status \in {"pending", "approved", "rejected"}

\* three calls on one item have returned a status
C5_Witness ==
    \E cid \in CommittedIds :
        Len(UpdatesOf(cid)) = 3 /\ Len(RowsOf(actionTbl, cid)) = 4

\* what a step does to one committed item: its status row and its action rows
StatusRow(tbl, cid) == RowsOf(tbl, cid)[1]

Paired(cid) ==
    LET st == StatusRow(statusTbl, cid)
        st2 == StatusRow(statusTbl', cid)
        acts == RowsOf(actionTbl, cid)
        acts2 == RowsOf(actionTbl', cid)
    IN (st2 # st \/ acts2 # acts) =>
          /\ Len(acts2) = Len(acts) + 1
          /\ SubSeq(acts2, 1, Len(acts)) = acts
          /\ st2 = [st EXCEPT !.status = acts2[Len(acts2)].action_type,
                              !.is_automated = FALSE,
                              !.last_updated = st2.last_updated]
          /\ acts2[Len(acts2)].action_type \in HumanStatuses

C7_ChainReconstructsHistory ==
    \A cid \in CommittedIds :
        LET rows == RowsOf(actionTbl, cid)
        IN /\ rows[1].user_id = NULL
           /\ rows[1].action_type \in
                  {"automated_pending", "automated_approved", "automated_rejected"}
           /\ \A k \in 2..Len(rows) :
                 rows[k].previous_status = DispositionSetBy(rows[k - 1].action_type)
           /\ StatusRow(statusTbl, cid).status =
                  DispositionSetBy(rows[Len(rows)].action_type)

C9_Step(w) ==
    LET cid == ret'[w].cid
    IN /\ (ret'[w].op = "update" /\ ret'[w].why = "not_found")
             => cid \notin CommittedIds
       /\ (ret'[w].op = "update" /\ ret'[w].ok) =>
             /\ cid \in CommittedIds
             /\ StatusRow(statusTbl', cid).status = sess[w].requested
             /\ sess[w].requested \in HumanStatuses
             /\ ~StatusRow(statusTbl', cid).is_automated
             /\ Len(RowsOf(actionTbl', cid)) = Len(RowsOf(actionTbl, cid)) + 1

C10_NotFoundChangesNothing ==
    /\ [](\A w \in Workers :
            sess[w].pc = "loaded" =>
                sess[w].cid \in CommittedIds /\ RowsOf(statusTbl, sess[w].cid) # <<>>)
    /\ [][\A w \in Workers :
            /\ (ret'[w].op = "update" /\ ret'[w].why = "not_found") =>
                   /\ ~ret'[w].ok
                   /\ UNCHANGED <<tables, updLog>>
                   /\ sess'[w].pc = "idle"
            /\ (sess[w].pc = "idle" /\ sess'[w].pc = "loaded") =>
                   (sess'[w].cid \in CommittedIds
                    /\ RowsOf(statusTbl, sess'[w].cid) # <<>>)]_vars

\* a call for an id that is not in the store, while another item is, returned
\* None
C10_Witness ==
    \E w \in Workers :
        /\ ret[w].op = "update" /\ ret[w].why = "not_found"
        /\ contentTbl # <<>>
        /\ ret[w].cid \notin CommittedIds

\* C11: a status update that asks for anything but approved or rejected is
\* answered as a failure in a step that changes no table and starts no call,
\* no session ever carries such a request, and the disposition of every
\* ModerationStatus is always pending, approved or rejected.
C11_InvalidStatusRefused ==
    /\ [](\A i \in 1..Len(statusTbl) :
            statusTbl[i].status \in {"pending", "approved", "rejected"})
    /\ [](\A w \in Workers : sess[w].requested \in HumanStatuses \cup {NULL})
    /\ [][\A w \in Workers :
            ret'[w].why = "invalid_status" =>
                /\ ~ret'[w].ok
                /\ UNCHANGED <<tables, nextId, sess, updLog>>]_vars

\* a request to set an ingested item to "escalated" has just been refused
C11_Witness ==
    \E w \in Workers :
        /\ ret[w].why = "invalid_status"
        /\ ret[w].cid \in CommittedIds
        /\ \A v \in Workers : sess[v].pc = "idle"

\* the rows of moderation_metric for one date and type
MetricRows(day, metric_type) ==
    SelectSeq(metricTbl,
              LAMBDA m : m.metric_date = day /\ m.metric_type = metric_type)

AllMetricTypes == {MetricTypes[i] : i \in 1..Len(MetricTypes)}

\* what the step in which job j returns from generate_daily_metrics did
C12_Step(j) ==
    (msess[j].pc = "read" /\ ret'[j].op = "generate" /\ ret'[j].ok) =>
        LET added == SubSeq(metricTbl', Len(metricTbl) + 1, Len(metricTbl'))
        IN /\ \A k \in 1..Len(added) :
                 /\ added[k].metric_type \notin msess[j].existing_types
                 /\ added[k].metric_date = msess[j].today
           /\ \A t \in AllMetricTypes \ msess[j].existing_types :
                 Cardinality({k \in 1..Len(added) : added[k].metric_type = t}) = 1
           /\ msess[j].existing_types = AllMetricTypes => metricTbl' = metricTbl

\* C12: a generate_daily_metrics call that starts when a metric type is already
\* recorded for the date adds no row of that type, and adds one row of each
\* type that is missing; a call made after one that recorded the date adds
\* nothing; and no step ever changes or removes a recorded row, whatever has
\* happened to statuses and flags since it was written.
C12_SecondCallAddsNothing ==
    /\ [][/\ Len(metricTbl') >= Len(metricTbl)
          /\ SubSeq(metricTbl', 1, Len(metricTbl)) = metricTbl]_vars
    /\ [][\A j \in Jobs :
            (msess[j].pc = "idle" /\ msess'[j].pc = "read") =>
                msess'[j].existing_types =
                    {t \in AllMetricTypes : MetricRows(today, t) # <<>>}]_vars
    /\ [][\A j \in Jobs : C12_Step(j)]_vars

\* a second call for today has just returned success: today's four rows are
\* still the only rows, although a status has been written since they were
\* recorded, so that the recorded count is no longer the day's count
C12_Witness ==
    \E j \in Jobs :
        /\ ret[j].op = "generate" /\ ret[j].ok
        /\ Len(metricTbl) = Len(MetricTypes)
        /\ \A t \in AllMetricTypes : Len(MetricRows(today, t)) = 1
        /\ MetricRows(today, "daily_processed")[1].metric_value.count
               < Len(RowsOn(statusTbl, "last_updated", today))

\* C13: in every state moderation_metric holds at most one row for each
\* (metric_date, metric_type), also when generate_daily_metrics calls overlap.
C13_OneRowPerDateAndType ==
    \A a, b \in 1..Len(metricTbl) :
        (metricTbl[a].metric_date = metricTbl[b].metric_date
         /\ metricTbl[a].metric_type = metricTbl[b].metric_type) => a = b

\* C14: when rows are found in the date range, every series that
\* get_moderation_metrics returns has exactly one entry for each of the last
\* `days` days, in ascending date order: the recorded value where the day has
\* a row of the type, the type's placeholder otherwise.
C14_OneEntryPerDay ==
    \A j \in Jobs :
        (ret[j].op = "get_metrics" /\ ret[j].why = "ok") =>
            \A t \in DOMAIN ret[j].series :
                LET values == ret[j].series[t]
                IN /\ \A i \in 0..(ret[j].days - 1) :
                         LET day == ret[j].end_date - i
                             at == {k \in 1..Len(values) :
                                       values[k].date = IsoFormat(day)}
                         IN /\ Cardinality(at) = 1
                            /\ \A k \in at :
                                  values[k].value =
                                      IF MetricRows(day, t) # <<>>
                                      THEN MetricRows(day, t)[1].metric_value
                                      ELSE Placeholder(t)
                   /\ \A k \in 1..(Len(values) - 1) :
                         ~IsoBefore(values[k + 1].date, values[k].date)

\* the ids of the Content rows committed since the table had n rows, in order
IdsSince(n) == [k \in 1..(Len(contentTbl) - n) |-> contentTbl[n + k].id]

\* C15: batch_process calls process_content for every item of its list: a
\* call that returns None leaves the loop running and on to the next item,
\* at every point the result list holds exactly the items committed so far,
\* in order, and the loop returns only after the last item.
C15_BatchProcessIndependent ==
    /\ [](\A w \in Workers :
            batch[w].kind = "batch_process" =>
                /\ batch[w].results = IdsSince(batch[w].at_start)
                /\ batch[w].i <= Len(batch[w].items) + 1)
    /\ [][\A w \in Workers :
            /\ (batch[w].kind = "batch_process" /\ ret'[w].op = "process") =>
                   /\ batch'[w].kind = "batch_process"
                   /\ batch'[w].items = batch[w].items
                   /\ batch'[w].i = batch[w].i + 1
                   /\ ~ret'[w].ok => /\ UNCHANGED tables
                                     /\ batch'[w].results = batch[w].results
            /\ (batch[w].kind = "batch_process" /\ batch'[w].kind = "none") =>
                   batch[w].i = Len(batch[w].items) + 1]_vars

\* a batch of two items has been answered: the first failed after its id was
\* drawn, the second was processed and is the one result
C15_Witness ==
    \E w \in Workers :
        /\ ret[w].op = "batch_moderate" /\ ret[w].ok
        /\ Len(ret[w].request) = 2
        /\ \A k \in 1..2 : ret[w].request[k].has_content
        /\ ret[w].results = <<2>>
        /\ CommittedIds = {2}

\* how many elements of a list satisfy a test
CountIn(list, Test(_)) == Cardinality({k \in 1..Len(list) : Test(list[k])})

HasContent(item) == item.has_content

\* C16 as stated: for every list, batch_moderate answers with a
\* processed_count equal to the number of items processed, and one result
\* entry per processed item.
C16_AlwaysCounts ==
    [][\A w \in Workers :
          ret'[w].op = "batch_moderate" =>
              /\ ret'[w].ok
              /\ ret'[w].processed_count = Len(IdsSince(batch[w].at_start))
              /\ Len(ret'[w].results) = ret'[w].processed_count]_vars

\* C16, amended: batch_moderate hands batch_process exactly the items that
\* have a content field and calls process_content for each of them; when at
\* least one was processed it answers with processed_count equal to the
\* number processed and one result entry per processed item, in order; when
\* none was processed (an empty list, only items without content, or every
\* call failed) it answers with a failure and has ingested nothing.
C16_CountsWhenAnyProcessed ==
    [][\A w \in Workers :
          ret'[w].op = "batch_moderate" =>
              LET done == IdsSince(batch[w].at_start)
              IN /\ Len(batch[w].items) = CountIn(ret'[w].request, HasContent)
                 /\ \A k \in 1..Len(batch[w].items) : batch[w].items[k].has_content
                 /\ batch[w].i = Len(batch[w].items) + 1
                 /\ Len(done) <= Len(batch[w].items)
                 /\ UNCHANGED tables
                 /\ IF done = <<>> THEN ~ret'[w].ok
                    ELSE /\ ret'[w].ok
                         /\ ret'[w].processed_count = Len(done)
                         /\ ret'[w].results = done]_vars

\* a batch whose first item has no content field has been answered with the
\* one item that has
C16_Witness ==
    \E w \in Workers :
        /\ ret[w].op = "batch_moderate" /\ ret[w].ok
        /\ Len(ret[w].request) = 2
        /\ ~ret[w].request[1].has_content
        /\ ret[w].request[2].has_content
        /\ ret[w].processed_count = 1

\* what the step in which batch_action answers has to show for the loop
C17_Step(w) ==
    (ret'[w].op = "batch_action" /\ ret'[w].ok) =>
        LET b == batch[w]
            new == SubSeq(updLog, b.at_start.updates + 1, Len(updLog))
        IN /\ b.i = Len(b.items) + 1
           /\ ret'[w].success_count = Len(new)
           /\ Len(actionTbl) = Len(b.at_start.actions) + Len(new)
           /\ Len(statusTbl) = Len(b.at_start.statuses)
           /\ \A cid \in CommittedIds :
                 LET k == Cardinality({n \in 1..Len(new) : new[n].cid = cid})
                     asked == Cardinality({n \in 1..Len(b.items) :
                                              b.items[n].numeric /\ b.items[n].id = cid})
                 IN /\ k <= asked
                    /\ Len(RowsOf(actionTbl, cid)) =
                           Len(RowsOf(b.at_start.actions, cid)) + k
                    /\ k = 0 => StatusRow(statusTbl, cid) =
                                    StatusRow(b.at_start.statuses, cid)
                    /\ k > 0 => /\ StatusRow(statusTbl, cid).status = b.status
                                /\ ~StatusRow(statusTbl, cid).is_automated

\* C17: batch_action calls update_moderation_status for each selected id in
\* turn; a call that fails leaves the loop running and on to the next id;
\* the reported success count is the number of calls that returned a status;
\* every id has one new ModerationAction per successful call for it, and an
\* id with no successful call keeps its status row and its actions.
C17_BatchActionCounts ==
    /\ [][\A w \in Workers :
            (batch[w].kind = "batch_action" /\ ret'[w].op = "update") =>
                /\ batch'[w].kind = "batch_action"
                /\ batch'[w].i = batch[w].i + 1
                /\ batch'[w].success_count =
                       batch[w].success_count + (IF ret'[w].ok THEN 1 ELSE 0)
                /\ ~ret'[w].ok => UNCHANGED tables]_vars
    /\ [][\A w \in Workers : C17_Step(w)]_vars

\* a selection of an ingested item and an id that is not in the store has
\* been answered: one success of two
C17_Witness ==
    \E w \in Workers :
        /\ ret[w].op = "batch_action" /\ ret[w].ok
        /\ ret[w].total = 2 /\ ret[w].success_count = 1
        /\ \E k \in 1..2 : ret[w].request[k].numeric
                              /\ ret[w].request[k].id \notin CommittedIds
        /\ Len(updLog) = 1

(* ------------------------ classification engine ----------------------- *)
\* a category has a working trained model: its vectorizer and classifier are
\* in the engine, fitted by one completed fit, and prediction does not fail
Working(category, failing) ==
    /\ category \in DOMAIN engine.vectorizers
    /\ category \in DOMAIN engine.models
    /\ engine.vectorizers[category].fit # 0
    /\ engine.vectorizers[category].fit = engine.models[category].fit
    /\ category \notin failing

\* C18: whatever the state of each category's model (trained, untrained,
\* missing, failing at prediction), classify_text returns a score between 0
\* and 1 for every known category; a fallback score lies between 0.1 and 0.9
\* and is given only to a category without a working trained model, and every
\* category with a working trained model keeps its model score
C18_ClassifyTotal ==
    \A w \in Handlers :
        ret[w].op = "classify" =>
            /\ ret[w].ok
            /\ DOMAIN ret[w].results = Known(engine)
            /\ \A c \in Known(engine) :
                  /\ ret[w].results[c] \in 0..100
                  /\ Working(c, ret[w].failing) => ret[w].how[c].kind = "model"
                  /\ ret[w].how[c].kind = "fallback" =>
                        /\ ret[w].results[c] \in 10..90
                        /\ ~Working(c, ret[w].failing)

\* a call where one category keeps its model score while another, whose
\* prediction fails, gets the fallback
C18_Witness ==
    \E w \in Handlers :
        /\ ret[w].op = "classify"
        /\ \E c, d \in Known(engine) :
              /\ ret[w].how[c].kind = "model"
              /\ d \in ret[w].failing
              /\ engine.models[d].fit # 0
              /\ ret[w].how[d].kind = "fallback"

\* C19: a load that fails (no file, a corrupt file, a file of another
\* layout) leaves the engine as one constructed without a file: every
\* category has an unfitted vectorizer and classifier, so that a later train
\* of a known category finds them and can fit
C19_FailedLoadLeavesUntrained ==
    \A w \in Handlers :
        /\ ret[w].op = "construct" /\ ret[w].load_failed =>
              engine = InitializeEmptyModels(EmptyEngine)
        /\ ret[w].op = "train" /\ ret[w].category \in Known(engine) =>
              ret[w].why # "KeyError"

\* C20: every model score classify_text returns was computed by a vectorizer
\* and a classifier of one and the same fit, also when the call runs while
\* train or load_model is under way or after a train that failed midway
C20_ClassifySeesOneFit ==
    \A w \in Handlers :
        ret[w].op = "classify" =>
            \A c \in DOMAIN ret[w].how :
                ret[w].how[c].kind = "model" =>
                    ret[w].how[c].vectorizer = ret[w].how[c].model

\* the names in the engine's category list
Listed == {engine.categories[i] : i \in 1..Len(engine.categories)}

\* C21: train for a name that is not a category returns the sentinel and
\* leaves the engine as it was; train whose fit raises returns the sentinel
\* to the caller, who is then free to train the next category
C21_Step ==
    \A w \in Handlers :
        ret'[w].op = "train" =>
            /\ ret'[w].category \notin Listed =>
                  ~ret'[w].ok /\ engine' = engine /\ artifact' = artifact
            /\ ~ret'[w].ok => tsess'.pc = "idle"
            /\ ret'[w].why = "fit_raised" => ~ret'[w].ok
C21_TrainFailureIsSentinel == [][C21_Step]_vars

\* a train call succeeded on an engine where an earlier train's fit raised
\* midway for another category
C21_Witness ==
    \E w \in Handlers :
        /\ ret[w].op = "train"
        /\ ret[w].ok
        /\ \E d \in Listed \ {ret[w].category} :
              /\ d \in DOMAIN engine.vectorizers
              /\ engine.vectorizers[d].fit # 0
              /\ engine.models[d].fit = 0

(* ----------------------------- training ------------------------------- *)
\* C22: a train_from_csv call that reaches its end reports exactly the known
\* categories of the file whose fit did not raise (a category whose fit
\* raised is left out, a name that is no category is passed over); a call
\* given no file or a file without the required columns fails before any
\* category is trained or anything is saved
C22_Step ==
    \A w \in Handlers :
        ret'[w].op = "train_from_csv" =>
            IF ret'[w].ok
            THEN \A i \in 1..Len(ret'[w].groups) :
                    LET c == ret'[w].groups[i]
                    IN c \in ret'[w].categories <=>
                          c \in Listed /\ c \notin ret'[w].raised
            ELSE ret'[w].why \in {"file_not_found", "missing_columns"} =>
                    engine' = engine /\ artifact' = artifact
C22_FailedFitOmitted == [][C22_Step]_vars

\* how many texts of a held-out set are predicted p and labelled l
Confusion(r, p, l) ==
    Cardinality({k \in 1..Len(r.tests) :
                    /\ (r.tests[k].score >= Thresholds[r.category]) = (p = 1)
                    /\ r.tests[k].label = l})

\* C23: for every held-out set evaluate_category returns its four metrics
\* without a division error: precision, recall and F1 are 0 whenever their
\* denominator is 0, all three are 0 when every label is 0, and accuracy is 0
\* for an empty set
C23_NoDivisionError ==
    \A w \in Handlers :
        ret[w].op = "evaluate" =>
            LET r == ret[w]
                m == r.metrics
            IN /\ \A k \in DOMAIN m : m[k].den > 0 /\ m[k].num \in 0..m[k].den
               /\ Confusion(r, 1, 1) + Confusion(r, 1, 0) = 0 => m.precision.num = 0
               /\ Confusion(r, 1, 1) + Confusion(r, 0, 1) = 0 => m.recall.num = 0
               /\ m.precision.num = 0 /\ m.recall.num = 0 => m.f1_score.num = 0
               /\ (\A k \in 1..Len(r.tests) : r.tests[k].label = 0) =>
                     m.precision.num = 0 /\ m.recall.num = 0 /\ m.f1_score.num = 0
               /\ r.tests = <<>> => m.accuracy.num = 0

\* a set whose labels are all 0 and where something is predicted 1, so that
\* only the recall's denominator is 0
C23_Witness ==
    \E w \in Handlers :
        /\ ret[w].op = "evaluate"
        /\ ret[w].tests # <<>>
        /\ \A k \in 1..Len(ret[w].tests) : ret[w].tests[k].label = 0
        /\ Confusion(ret[w], 1, 0) > 0

(* --------------------------- preprocessing ---------------------------- *)
\* C24: preprocessing is idempotent: what preprocess_text returns for a text
\* (with URLs, e-mail addresses, punctuation, digit runs) is returned
\* unchanged when preprocess_text is applied to it again
C24_Idempotent ==
    \A w \in Handlers :
        ret[w].op = "preprocess" => preprocess_text(ret[w].result) = ret[w].result

(* ------------------------------ the store ----------------------------- *)
\* the content ids a table's rows refer to
RefersTo(tbl) == {tbl[i].content_id : i \in 1..Len(tbl)}

\* each Content row has exactly one ModerationStatus and at least one
\* ModerationAction, and no row refers to a Content row that is not there
C25_Linked ==
    /\ \A cid \in CommittedIds :
          /\ Len(RowsOf(statusTbl, cid)) = 1
          /\ Len(RowsOf(actionTbl, cid)) >= 1
    /\ RefersTo(statusTbl) \cup RefersTo(flagTbl) \cup RefersTo(actionTbl)
           \subseteq CommittedIds

\* the Content rows a step makes visible are those whose ModerationStatus
\* the step makes visible
C25_Step ==
    {contentTbl'[i].id : i \in 1..Len(contentTbl')} \ CommittedIds
        = {statusTbl'[i].content_id : i \in 1..Len(statusTbl')} \ RefersTo(statusTbl)

\* C25: in every reachable state each Content row has exactly one
\* ModerationStatus and at least one ModerationAction, and every
\* ModerationStatus, ContentFlag and ModerationAction refers to an existing
\* Content row, which was created by the process_content call that created
\* the item's status
C25_StoreIsLinked == []C25_Linked /\ [][C25_Step]_vars

\* an item with its status, a flag, its first action and a reviewer's action
C25_Witness ==
    \E cid \in CommittedIds :
        /\ Len(RowsOf(actionTbl, cid)) >= 2
        /\ Len(RowsOf(flagTbl, cid)) >= 1

(* ------------------------------ metrics ------------------------------- *)
RECURSIVE SumOver(_, _)
\* the sum of a dict's values over a set of its keys
SumOver(dict, keys) ==
    IF keys = {} THEN 0
    ELSE LET k == CHOOSE x \in keys : TRUE
         IN dict[k] + SumOver(dict, keys \ {k})

\* the value a list of metric rows holds for a type
ValueOf(rows, metric_type) ==
    rows[CHOOSE i \in 1..Len(rows) : rows[i].metric_type = metric_type].metric_value

\* C26: the metrics one generate_daily_metrics call newly records for a date
\* describe the same statuses: daily_processed is the number of
\* ModerationStatus rows last updated that day, status_distribution counts
\* those rows per disposition and avg_processing_time averages those with a
\* latency (0 if none), so that the status_distribution counts of the call
\* sum to its daily_processed count
C26_OneCallOneDay ==
    \A j \in Jobs :
        ret[j].op = "generate" /\ ret[j].ok /\ Len(ret[j].added) = Len(MetricTypes) =>
            LET processed == ValueOf(ret[j].added, "daily_processed")
                statuses == ValueOf(ret[j].added, "status_distribution")
                latency == ValueOf(ret[j].added, "avg_processing_time")
            IN /\ SumOver(statuses, DOMAIN statuses) = processed.count
               /\ processed.count = 0 => latency.num = 0
               /\ processed.count > 0 => latency.den <= processed.count

(* ------------------------------ storage ------------------------------- *)
\* C27: the Content row a process_content call commits holds as its display
\* text the submission cut to at most 1000 characters; as its original
\* content it holds, for an image or video of more than 1000 characters, the
\* reference string (the type and, when the metadata has one, the filename)
\* and not the payload, and in every other case the submission itself
C27_Step ==
    \A w \in Workers :
        ret'[w].op = "process" /\ ret'[w].ok =>
            LET row == contentTbl'[Len(contentTbl')]
                given == sess[w].submitted.content_text
                metadata == sess[w].submitted.metadata
            IN /\ row.id = ret'[w].cid
               /\ row.content_text.payload = given.payload
               /\ row.content_text.length =
                      (IF given.length <= 1000 THEN given.length ELSE 1000)
               /\ IF row.content_type \in {"image", "video"} /\ given.length > 1000
                  THEN /\ row.original_content = 
                            [reference |-> row.content_type,
                             filename |-> IF metadata.given THEN metadata.filename
                                          ELSE NULL]
                       /\ "text" \notin DOMAIN row.original_content
                  ELSE row.original_content = [text |-> given]
C27_StoredAsSubmitted == [][C27_Step]_vars

\* a video of 1001 characters with a filename has been stored
C27_Witness ==
    \E i \in 1..Len(contentTbl) :
        /\ contentTbl[i].content_type = "video"
        /\ contentTbl[i].content_text.length = 1000
        /\ "reference" \in DOMAIN contentTbl[i].original_content
        /\ contentTbl[i].original_content.filename # NULL

(* ------------------------- training and serving ----------------------- *)
\* the categories the saved artifact holds a completed fit for
SavedFits ==
    IF artifact.kind # "saved" THEN {}
    ELSE {c \in DOMAIN artifact.data.models :
             /\ artifact.data.models[c].fit # 0
             /\ artifact.data.vectorizers[c].fit = artifact.data.models[c].fit}

\* C28: once a training run has fitted a category and saved the artifact,
\* every later moderate call for a text scores that category with the
\* trained model and not with the random fallback
C28_ServesTrainedModel ==
    \A w \in Handlers :
        ret[w].op = "moderate" =>
            \A c \in SavedFits : ret[w].how[c].kind = "model"

\* C29: train_model, given a file that exists and has the text column and a
\* column per category, trains every category, saves the artifact and
\* returns a result entry for every category
C29_TrainsEveryCategory ==
    \A w \in Handlers :
        ret[w].op = "train_model" /\ ret[w].file = "ok" /\ ret[w].why # "exception" =>
            /\ ret[w].ok
            /\ ret[w].categories = Listed
            /\ artifact.kind = "saved"

(* ------------------------- what an update touches --------------------- *)
\* a ModerationStatus row without the columns an update may write
Kept(row) ==
    [content_id |-> row.content_id, moderation_score |-> row.moderation_score,
     processing_time |-> row.processing_time]

\* C30: an update_moderation_status call that succeeds on an item leaves the
\* Content rows, the ContentFlags, the item's overall score and latency and
\* every row of any other item as they were; it changes the item's status,
\* is_automated and last_updated only and appends one ModerationAction for
\* the item
C30_Step ==
    \A w \in Workers :
        ret'[w].op = "update" /\ ret'[w].ok =>
            /\ contentTbl' = contentTbl
            /\ flagTbl' = flagTbl
            /\ Len(statusTbl') = Len(statusTbl)
            /\ \A i \in 1..Len(statusTbl) :
                  IF statusTbl[i].content_id = ret'[w].cid
                  THEN Kept(statusTbl'[i]) = Kept(statusTbl[i])
                  ELSE statusTbl'[i] = statusTbl[i]
            /\ Len(actionTbl') = Len(actionTbl) + 1
            /\ SubSeq(actionTbl', 1, Len(actionTbl)) = actionTbl
            /\ actionTbl'[Len(actionTbl')].content_id = ret'[w].cid
C30_UpdateTouchesOneItem == [][C30_Step]_vars

\* an update succeeded on one item while another item with a flag is stored
C30_Witness ==
    \E w \in Workers :
        /\ ret[w].op = "update"
        /\ ret[w].ok
        /\ \E i \in 1..Len(flagTbl) : flagTbl[i].content_id # ret[w].cid


====
